---- MODULE Spec2Model ----
(***************************************************************************)
(* Session orchestration and stream multiplexing of docorcpty.            *)
(*                                                                         *)
(*   Spec        the session registry (SessionManager): create_session    *)
(*               with its suspension at the channel connect, close,       *)
(*               the idle reaper, cleanup, send_input and the clock.      *)
(*   SpecReap    sessions that are written to, resized and reaped.        *)
(*   SpecCreate  create_session with and without automation, its failure  *)
(*               at connect, and close_session.                            *)
(*   SpecList    list_sessions next to create, close and send_input.      *)
(*   SpecRelay   one session's relay loop (_read_output) and its          *)
(*               subscriber list.                                          *)
(*   SpecRelayLive  the relay loop with subscribers that change the       *)
(*               subscriber list while a delivery pass runs.               *)
(*   SpecRelayStop  the relay loop, run fairly, of a session that is      *)
(*               closed at some point.                                     *)
(*   SpecExpect  the automation engine (PexpectHandler): expect and       *)
(*               send_command over a backend byte stream.                  *)
(*   SpecEngineClose  the engine used through expect and closed, on its   *)
(*               own or by Session.close.                                  *)
(*   SpecScript  execute_script requests (the runScript route) on an       *)
(*               automation-enabled session.                               *)
(*   SpecShared  an automation-enabled session: the relay loop and the    *)
(*               engine's expect over the one backend channel.             *)
(*   SpecSession one Session object: send_input, resize and close, and    *)
(*               the calls they make on the engine and the channel.       *)
(*   SpecActivity  one Session object together with its relay loop.       *)
(*   SpecChannel one backend channel (PTYHandler), written, read and       *)
(*               closed.                                                   *)
(*   SpecGlitch  a Session and its relay loop over a channel whose         *)
(*               transport calls may raise.                                *)
(*   SpecLookup  a registered Session, its relay loop and close_session   *)
(*               over a channel whose transport calls may raise.          *)
(*   SpecPush    one push-channel connection (websocket_endpoint) to a    *)
(*               session id, the connection registry (WebSocketManager)   *)
(*               and the session's relay loop.                             *)
(*   SpecBroadcast  the connection registry on its own: connect,          *)
(*               disconnect and send_to_session, one call at a time.      *)
(*   SpecBroadcastLive  the same with connect and disconnect running      *)
(*               while a send_to_session pass is suspended in a send.     *)
(*                                                                         *)
(* The specifications share the variables; each leaves the variables of   *)
(* the components it does not run at their initial values.                 *)
(***************************************************************************)
EXTENDS Integers, Sequences, FiniteSets, TLC

VARIABLES
    \* ---- session registry (orchestrator/core/session_manager.py)
    sessions,     \* keys of SessionManager.sessions
    sessObj,      \* the Session object built for each id (kept after removal)
    pty,          \* state of the PTYHandler built for each id
    connects,     \* number of connect calls made on that PTYHandler
    usePexpect,   \* the use_pexpect argument of the call that drew each id
    relay,        \* number of _read_output tasks created for each id
    nextId,       \* number of the next uuid4 value
    now,          \* the clock (datetime.utcnow / time.time), in ticks
    lastOp,       \* history: the last registry operation that completed, its
                  \* argument or returned id, its result, the ids a reaper pass closed
    closedIds,    \* history: ids a close_session call has removed
    lastInput,    \* history: time of the last send_input of each registered id, -1 = none
    listed,       \* the value the last list_sessions call returned
    lastResize    \* history: the id and the time of the last resize

VARIABLES
    \* ---- one session and its relay task (Session, _read_output)
    callbacks,    \* Session._output_callbacks, a list
    rActive,      \* Session.active
    rConnected,   \* PTYHandler._connected of the session's channel
    rPc,          \* position of the _read_output task
    backend,      \* chunks the backend has emitted and no read has returned yet
    emitted,      \* number of chunks the backend has emitted
    readLog,      \* history: the chunks the relay loop read, in order
    invoked       \* history: the chunks each callback was called with, in order

VARIABLES
    \* ---- one automation engine (orchestrator/terminal/pexpect_handler.py)
    chanKind,     \* the channel the engine wraps: "pty" or "sync"
    buffer,       \* PexpectHandler._buffer
    patterns,     \* PexpectHandler._patterns
    chan,         \* bytes the backend has emitted and no read has returned yet
    nEmitted,     \* number of bytes the backend has emitted
    lastWrite,    \* the text of the last send (encoded, handed to pty_handler.write)
    ePc,          \* "idle", or "loop" while an expect call is in its while loop
    eCaller,      \* who called expect: "expect" (the facade) or "send_command"
    ePats,        \* the patterns of the current / last expect call
    eTimeout,     \* its timeout, in ticks of the 0.1 s sleep
    eElapsed,     \* time.time() - start_time of that call, in ticks
    eOutcome,     \* how the last expect call ended
    cmdRet,       \* how the last send_command call ended
    eSearched,    \* history: the buffer the call's last pattern test searched
    eAccum,       \* history: the buffer at the call plus the bytes the call read
    cmdEmitted    \* history: bytes the backend emitted while send_command waited

VARIABLES
    \* ---- one Session object and its collaborators (Session, PTYHandler)
    sEngine,      \* Session.pexpect_handler is not None
    sLastActivity,\* Session.last_activity, in ticks
    sRegistered,  \* the session is a value of SessionManager.sessions
    sCalls,       \* the calls the last Session, engine or channel operation
                  \* made, in order
    sCloses,      \* history: how many times Session.close was called
    sError,       \* the exception that left the last Session method, or "none"
    chRet         \* what the last direct call of the channel's read returned

VARIABLES
    \* ---- one push-channel connection (api/app.py, api/websocket.py)
    wsTarget,     \* the session id of the URL: "live" (the session's) or "unknown"
    wsPc,         \* position of websocket_endpoint for the connection
    active_connections, \* WebSocketManager.active_connections
    wsIn,         \* what the client sent and receive_json has not returned yet
    wsLog,        \* history: the frames the handler received and what it did
    wsOut         \* the frames send_json has sent to the client

VARIABLES
    \* ---- one execute_script request (api/routes/automation.py)
    scrPc,        \* "idle", "running" (inside a send_command) or "done"
    scrCommands,  \* request.commands
    scrPrompts,   \* request.expect_prompts (empty when absent)
    scrResults,   \* the list `results`
    scrSent,      \* history: the texts the request's send_command calls sent
    scrRet        \* how the request ended: "returned" or the exception raised

VARIABLES
    \* ---- one send_to_session pass of the WebSocketManager (api/websocket.py)
    dPc,          \* "idle", "sending" (suspended in send_json), "done", "failed"
    dSid,         \* the session_id of the pass
    dCur,         \* the connection the pass is sending to
    dUsed,        \* the size of the set when its iterator was made
    dDetached,    \* the iterated set is no longer the entry of the map
    dBehind,      \* members of the set the iterator has passed
    dLoose,       \* the set's table may have been rebuilt under the iterator
    disconnected, \* the list `disconnected`
    dStart,       \* history: the set of the session when the pass began
    dSent,        \* history: the connections the pass called send_json on,
                  \* in order
    dStable,      \* history: members of dStart no one else removed so far
    dRet          \* how the pass ended: "returned" or the exception raised

regVars == <<sessions, sessObj, pty, connects, usePexpect, relay, nextId, now,
             lastOp, closedIds, lastInput, listed, lastResize>>
expVars == <<chanKind, buffer, patterns, chan, nEmitted, lastWrite, ePc,
             eCaller, ePats,
             eTimeout, eElapsed, eOutcome, cmdRet, eSearched, eAccum,
             cmdEmitted>>
relayVars == <<callbacks, rActive, rConnected, rPc, backend, emitted, readLog,
               invoked>>

sessVars == <<sEngine, sLastActivity, sRegistered, sCalls, sCloses, sError,
              chRet>>

bcVars == <<dPc, dSid, dCur, dUsed, dDetached, dBehind, dLoose, disconnected,
            dStart, dSent, dStable, dRet>>

wsVars == <<wsTarget, wsPc, active_connections, wsIn, wsLog, wsOut, bcVars>>

scrVars == <<scrPc, scrCommands, scrPrompts, scrResults, scrSent, scrRet>>

vars == <<regVars, relayVars, expVars, sessVars, wsVars, scrVars>>

\* what the registry operations leave alone
otherThanReg == <<relayVars, expVars, sessVars, wsVars, scrVars>>
\* what the relay task and the Session's subscriber operations leave alone
otherThanRelay == <<regVars, expVars, sessVars, wsVars, scrVars>>
\* what the automation engine and the backend's byte stream leave alone
otherThanExp == <<regVars, relayVars, sessVars, wsVars, scrVars>>

----------------------------------------------------------------------------
(* Bounds of the model *)

\* uuid4 values the model can issue
MaxIds == 3
\* create_session calls that can be in flight together
MaxCreators == 2
\* last value of the clock
MaxTime == 2
\* SessionManager(max_sessions=...), scaled down
max_sessions == 2
\* SessionManager(timeout_seconds=...), in ticks
timeout_seconds == 1
\* distinct output callbacks
MaxCallbacks == 2
\* longest subscriber list
MaxSubs == 2
\* chunks the backend emits
MaxChunks == 2
\* bytes the backend emits to the automation engine
MaxEmit == 3
\* largest expect timeout, in ticks of the 0.1 s sleep
MaxTimeout == 2
\* frames a push-channel client sends
MaxFrames == 2
\* Session.close calls on one Session object
MaxCloses == 2
\* commands of one execute_script request
MaxCmds == 2
\* connections one send_to_session pass sends to (the slots of the set's table
\* that lie ahead of its iterator)
MaxSends == 3

Ids == 1..MaxIds
\* arguments of close_session / get_session: every id and one never issued
IdArgs == 0..MaxIds
None == 0

\* a completed operation, for lastOp
Op(op, id, ret) == [op |-> op, id |-> id, ret |-> ret, reaped |-> {}]

----------------------------------------------------------------------------
(* Session and SessionManager *)

\* Session.__init__: active, last_activity = utcnow()
NewSession(t, pexpect_handler) ==
    [active |-> TRUE, last_activity |-> t, closes |-> 0,
     pexpect |-> pexpect_handler]

\* no Session object has been built for the id
NoSession ==
    [active |-> FALSE, last_activity |-> 0, closes |-> 0, pexpect |-> FALSE]

\* Session.close: active = False, engine closed, channel closed
SessionClose(s) == [s EXCEPT !.active = FALSE, !.closes = @ + 1]

\* Session.send_input: last_activity = utcnow()
SessionSendInput(s, t) == [s EXCEPT !.last_activity = t]

CapacityReachedOffByOne == Cardinality(sessions) > max_sessions
\* create_session: len(self.sessions) >= self.max_sessions
CapacityReached == Cardinality(sessions) >= max_sessions

\* an id generator that hands out the id of a closed session again
Uuid4Reused == IF closedIds # {} THEN CHOOSE i \in closedIds : TRUE ELSE nextId
\* uuid.uuid4(): a value no earlier call returned
Uuid4 == nextId

\* a lookup that still finds the Session of a removed id
GetSessionStale(id) == IF id \in sessions \cup closedIds THEN id ELSE None
\* SessionManager.get_session: self.sessions.get(session_id)
GetSession(id) == IF id \in sessions THEN id ELSE None

\* the ids of the create_session calls suspended in `await connect`
Connecting == {id \in Ids : pty[id] = "connecting"}

\* create_session up to its suspension in `await pty_handler.connect`:
\* the capacity check, the id, the PTYHandler.
CreateSessionCheck(use_pexpect) ==
    /\ IF CapacityReached
       THEN /\ lastOp' = Op("create", None, "RuntimeError")
            /\ UNCHANGED <<sessions, sessObj, pty, connects, usePexpect, relay,
                           nextId, now, closedIds, lastInput, listed>>
       ELSE /\ nextId <= MaxIds
            /\ Cardinality(Connecting) < MaxCreators
            /\ pty' = [pty EXCEPT ![Uuid4] = "connecting"]
            /\ connects' = [connects EXCEPT ![Uuid4] = @ + 1]
            /\ usePexpect' = [usePexpect EXCEPT ![Uuid4] = use_pexpect]
            /\ nextId' = nextId + 1
            /\ UNCHANGED <<sessions, sessObj, relay, now, lastOp, closedIds,
                           lastInput, listed>>
    /\ UNCHANGED lastResize
    /\ UNCHANGED otherThanReg

\* a create_session that attaches an engine to every session
EngineAlways(use_pexpect) == TRUE
\* lines 133-135: a PexpectHandler is built exactly when use_pexpect is set
EngineFor(use_pexpect) == use_pexpect

\* create_session after connect returned: the Session is built and stored,
\* the relay task is started, the id is returned.
CreateSessionFinish(sid) ==
    /\ sid \in Connecting
    /\ pty' = [pty EXCEPT ![sid] = "connected"]
    /\ sessObj' = [sessObj EXCEPT
                     ![sid] = NewSession(now, EngineFor(usePexpect[sid]))]
    /\ sessions' = sessions \cup {sid}
    /\ relay' = [relay EXCEPT ![sid] = @ + 1]
    /\ lastOp' = Op("create", sid, "Created")
    /\ UNCHANGED <<connects, usePexpect, nextId, now, closedIds, lastInput,
                   listed>>
    /\ UNCHANGED lastResize
    /\ UNCHANGED otherThanReg

\* a create_session that registers the id although connect raised
RegisteredDespiteError(regs, sid) == regs \cup {sid}
\* the registry when connect raised: line 130 leaves create_session, the
\* insert of line 145 is not reached
AfterConnectError(regs, sid) == regs

\* create_session when connect raised: the error reaches the caller
CreateSessionConnectFails(sid) ==
    /\ sid \in Connecting
    /\ pty' = [pty EXCEPT ![sid] = "failed"]
    /\ sessions' = AfterConnectError(sessions, sid)
    /\ lastOp' = Op("create", None, "ConnectError")
    /\ UNCHANGED <<sessObj, connects, usePexpect, relay, nextId, now,
                   closedIds, lastInput, listed>>
    /\ UNCHANGED lastResize
    /\ UNCHANGED otherThanReg

\* the registry after close_session(id) found the id: lines 177-178
CloseKeepsEntry(regs, id) == regs
RemoveEntry(regs, id) == regs \ {id}

\* the effect of close_session on the registry variables, for a set of ids
\* closed one after the other (each found in the map)
CloseAll(ids) ==
    /\ sessObj' = [i \in Ids |-> IF i \in ids THEN SessionClose(sessObj[i])
                                  ELSE sessObj[i]]
    /\ pty' = [i \in Ids |-> IF i \in ids THEN "closed" ELSE pty[i]]
    /\ closedIds' = closedIds \cup ids
    /\ lastInput' = [i \in Ids |-> IF i \in ids THEN -1 ELSE lastInput[i]]

\* SessionManager.close_session
CloseSession(id) ==
    /\ IF GetSession(id) = None
       THEN /\ lastOp' = Op("close", id, "False")
            /\ UNCHANGED <<sessions, sessObj, pty, closedIds, lastInput>>
       ELSE /\ CloseAll({id})
            /\ sessions' = RemoveEntry(sessions, id)
            /\ lastOp' = Op("close", id, "True")
    /\ UNCHANGED <<connects, usePexpect, relay, nextId, now, listed>>
    /\ UNCHANGED lastResize
    /\ UNCHANGED otherThanReg

TimedOutInclusive(id) == now - sessObj[id].last_activity >= timeout_seconds
\* _cleanup_loop: now - session.last_activity > timeout_delta
TimedOut(id) == now - sessObj[id].last_activity > timeout_seconds

\* one pass of _cleanup_loop after its sleep: no suspension inside the pass
ReaperPass ==
    /\ LET timed_out == {id \in sessions : TimedOut(id)} IN
        /\ CloseAll(timed_out)
        /\ sessions' = sessions \ timed_out
        /\ lastOp' = [Op("reap", None, "None") EXCEPT !.reaped = timed_out]
    /\ UNCHANGED <<connects, usePexpect, relay, nextId, now, listed>>
    /\ UNCHANGED lastResize
    /\ UNCHANGED otherThanReg

\* SessionManager.cleanup: close_session on every key
Cleanup ==
    /\ CloseAll(sessions)
    /\ sessions' = {}
    /\ lastOp' = Op("cleanup", None, "None")
    /\ UNCHANGED <<connects, usePexpect, relay, nextId, now, listed>>
    /\ UNCHANGED lastResize
    /\ UNCHANGED otherThanReg

\* a send_input that leaves the Session objects as they were
SendInputNoTouch(id) == sessObj
\* the Session objects after get_session(id).send_input(data)
SendInputEffect(id) == [sessObj EXCEPT ![id] = SessionSendInput(@, now)]

\* send_input on a registered session (the facade answers 404 otherwise)
SendInput(id) ==
    /\ GetSession(id) # None
    /\ sessObj' = SendInputEffect(id)
    /\ lastInput' = [lastInput EXCEPT ![id] = now]
    /\ lastOp' = Op("input", id, "None")
    /\ UNCHANGED <<sessions, pty, connects, usePexpect, relay, nextId, now,
                   closedIds, listed>>
    /\ UNCHANGED lastResize
    /\ UNCHANGED otherThanReg

\* datetime.isoformat(): the text of a time
Isoformat(t) == [isoformat |-> t]

\* the sessions list_sessions walks: self.sessions.values()
ListedIncludesClosed == sessions \cup closedIds
ListedSessions == sessions

\* one element of the list list_sessions builds: a new dict of the id, the
\* text of last_activity and the active flag (container_id and created_at,
\* set once by __init__, are not carried by the model)
Descriptor(id) ==
    [session_id |-> id,
     last_activity |-> Isoformat(sessObj[id].last_activity),
     active |-> sessObj[id].active]

\* SessionManager.list_sessions
ListSessions ==
    /\ listed' = {Descriptor(id) : id \in ListedSessions}
    /\ lastOp' = Op("list", None, "list")
    /\ UNCHANGED <<sessions, sessObj, pty, connects, usePexpect, relay, nextId,
                   now, closedIds, lastInput>>
    /\ UNCHANGED lastResize
    /\ UNCHANGED otherThanReg

\* time passes
Tick ==
    /\ now < MaxTime
    /\ now' = now + 1
    /\ UNCHANGED <<sessions, sessObj, pty, connects, usePexpect, relay, nextId,
                   lastOp, closedIds, lastInput, listed>>
    /\ UNCHANGED lastResize
    /\ UNCHANGED otherThanReg

RegInit ==
    /\ sessions = {}
    /\ sessObj = [i \in Ids |-> NoSession]
    /\ pty = [i \in Ids |-> "none"]
    /\ connects = [i \in Ids |-> 0]
    /\ usePexpect = [i \in Ids |-> FALSE]
    /\ relay = [i \in Ids |-> 0]
    /\ nextId = 1
    /\ now = 0
    /\ lastOp = Op("none", None, "None")
    /\ closedIds = {}
    /\ lastInput = [i \in Ids |-> -1]
    /\ listed = {}
    /\ lastResize = [id |-> None, at |-> 0]

----------------------------------------------------------------------------
(* One session's relay loop: SessionManager._read_output *)

Callbacks == 1..MaxCallbacks
\* the callbacks whose every invocation raises an Exception
CbRaises == {2}
\* the callbacks that call session.remove_output_callback on themselves
\* when they are invoked
CbUnsubscribes == {MaxCallbacks + 1}
\* the closure output_callback of a push-channel connection (app.py),
\* an `async def`
OutputCallback == 0
\* every callable the model registers
AllCallbacks == Callbacks \cup CbUnsubscribes \cup {OutputCallback}
Chunks == 1..MaxChunks

Range(q) == {q[i] : i \in 1..Len(q)}

\* list.remove: the list without the first occurrence of cb
RECURSIVE RemoveFirst(_, _)
RemoveFirst(q, cb) ==
    IF q = << >> THEN << >>
    ELSE IF Head(q) = cb THEN Tail(q)
         ELSE <<Head(q)>> \o RemoveFirst(Tail(q), cb)

\* session._output_callbacks after the body of cb has run
CallbackEffect(cb, cbs) ==
    IF cb \in CbUnsubscribes THEN RemoveFirst(cbs, cb) ELSE cbs

\* callback(data): the call is made; whether it raises is CbRaises
Invoke(cb, data, inv) == [inv EXCEPT ![cb] = Append(@, data)]

\* for callback in session._output_callbacks: try: callback(data)
\* except Exception: log -- from list position i on.  The for statement
\* walks the list object itself: after each callback it takes the element
\* at the next position of the list as it then is.
RECURSIVE Deliver(_, _, _, _)
Deliver(cbs, i, data, inv) ==
    IF i > Len(cbs) THEN [invoked |-> inv, callbacks |-> cbs]
    ELSE Deliver(CallbackEffect(cbs[i], cbs), i + 1, data,
                 Invoke(cbs[i], data, inv))

\* a loop without the inner try/except: the first raising callback ends it
RECURSIVE DeliverUntilRaise(_, _, _, _)
DeliverUntilRaise(cbs, i, data, inv) ==
    IF i > Len(cbs) THEN [invoked |-> inv, callbacks |-> cbs, raised |-> FALSE]
    ELSE IF cbs[i] \in CbRaises
         THEN [invoked |-> Invoke(cbs[i], data, inv), callbacks |-> cbs,
               raised |-> TRUE]
         ELSE DeliverUntilRaise(CallbackEffect(cbs[i], cbs), i + 1, data,
                                Invoke(cbs[i], data, inv))

DeliverPassAbortsOnError(cbs, data, inv) == DeliverUntilRaise(cbs, 1, data, inv)
\* one delivery pass, lines 211-215: what each callback has been called with
\* afterwards, the list afterwards, and whether an exception left the pass
DeliverPass(cbs, data, inv) ==
    [invoked |-> Deliver(cbs, 1, data, inv).invoked,
     callbacks |-> Deliver(cbs, 1, data, inv).callbacks,
     raised |-> FALSE]

\* callback(data) on an `async def` callback builds a coroutine object and
\* returns it; line 213 drops the object, nothing awaits or schedules it,
\* so its body (websocket.send_json) does not run
CoroutineAwaited == FALSE

\* the frame output_callback(data) sends when its body runs
OutputFrame(data) == [type |-> "output", data |-> <<data>>]

\* the frames the n calls of output_callback(data) of one pass send
PassFrames(n, data) ==
    IF CoroutineAwaited THEN [k \in 1..n |-> OutputFrame(data)] ELSE << >>

\* a loop whose test does not look at session.active
LoopTopIgnoresActive(active, connected) ==
    IF connected THEN "reading" ELSE "sleeping"
\* `while session.active:` followed by the call of pty_handler.read():
\* read() of a disconnected channel returns "" at once (line 86) and the
\* loop suspends in sleep; otherwise the task suspends in recv
LoopTop(active, connected) ==
    IF ~active THEN "done"
    ELSE IF connected THEN "reading" ELSE "sleeping"

\* the task created by create_session runs for the first time
RelayStart ==
    /\ rPc = "start"
    /\ rPc' = LoopTop(rActive, rConnected)
    /\ UNCHANGED <<callbacks, rActive, rConnected, backend, emitted, readLog,
                   invoked>>
    /\ UNCHANGED otherThanRelay

\* read() returns a chunk: the delivery pass runs, then the loop test
RelayReadData ==
    /\ rPc = "reading"
    /\ backend # << >>
    /\ LET data == Head(backend)
           pass == DeliverPass(callbacks, data, invoked) IN
        /\ backend' = Tail(backend)
        /\ readLog' = Append(readLog, data)
        /\ invoked' = pass.invoked
        /\ callbacks' = pass.callbacks
        /\ wsOut' = wsOut \o PassFrames(Len(pass.invoked[OutputCallback])
                                          - Len(invoked[OutputCallback]), data)
        /\ IF pass.raised
           THEN \* except Exception, lines 220-222
                /\ rActive' = FALSE
                /\ rPc' = "done"
           ELSE /\ rActive' = rActive
                /\ rPc' = LoopTop(rActive, rConnected)
    /\ UNCHANGED <<rConnected, emitted>>
    /\ UNCHANGED <<wsTarget, wsPc, active_connections, wsIn, wsLog>>
    /\ UNCHANGED bcVars
    /\ UNCHANGED <<regVars, expVars, sessVars, scrVars>>

\* read() returns "": nothing received, or the transport failed (line 101)
RelayReadEmpty ==
    /\ rPc = "reading"
    /\ rPc' = "sleeping"
    /\ UNCHANGED <<callbacks, rActive, rConnected, backend, emitted, readLog,
                   invoked>>
    /\ UNCHANGED otherThanRelay

\* asyncio.sleep(0.01) is over: the loop test
RelayWake ==
    /\ rPc = "sleeping"
    /\ rPc' = LoopTop(rActive, rConnected)
    /\ UNCHANGED <<callbacks, rActive, rConnected, backend, emitted, readLog,
                   invoked>>
    /\ UNCHANGED otherThanRelay

\* Session.add_output_callback: append
AddOutputCallback(cb) ==
    /\ Len(callbacks) < MaxSubs
    /\ callbacks' = Append(callbacks, cb)
    /\ UNCHANGED <<rActive, rConnected, rPc, backend, emitted, readLog, invoked>>
    /\ UNCHANGED otherThanRelay

\* Session.remove_output_callback
RemoveOutputCallback(cb) ==
    /\ callbacks' = IF cb \in Range(callbacks) THEN RemoveFirst(callbacks, cb)
                    ELSE callbacks
    /\ UNCHANGED <<rActive, rConnected, rPc, backend, emitted, readLog, invoked>>
    /\ UNCHANGED otherThanRelay

\* Session.close: active = False, the channel is closed
RelaySessionClose ==
    /\ rActive' = FALSE
    /\ rConnected' = FALSE
    /\ UNCHANGED <<callbacks, rPc, backend, emitted, readLog, invoked>>
    /\ UNCHANGED otherThanRelay

\* the backend process writes its next chunk
BackendEmit ==
    /\ emitted < MaxChunks
    /\ emitted' = emitted + 1
    /\ backend' = Append(backend, emitted + 1)
    /\ UNCHANGED <<callbacks, rActive, rConnected, rPc, readLog, invoked>>
    /\ UNCHANGED otherThanRelay

\* a session as create_session leaves it: active, connected, no subscriber,
\* its relay task created
RelayInit ==
    /\ callbacks = << >>
    /\ rActive = TRUE
    /\ rConnected = TRUE
    /\ rPc = "start"
    /\ backend = << >>
    /\ emitted = 0
    /\ readLog = << >>
    /\ invoked = [cb \in AllCallbacks |-> << >>]

RelayNext ==
    \/ RelayStart
    \/ RelayReadData
    \/ RelayReadEmpty
    \/ RelayWake
    \/ \E cb \in Callbacks : AddOutputCallback(cb)
    \/ \E cb \in Callbacks : RemoveOutputCallback(cb)
    \/ RelaySessionClose
    \/ BackendEmit


----------------------------------------------------------------------------
(* The automation engine: PexpectHandler *)

Alphabet == {"a", "b"}
\* literal patterns; expect compiles a str p as re.compile(re.escape(p))
PatStrings == {<<"a">>, <<"b">>, <<"a", "b">>}
\* pattern lists of an expect call
PatLists == {<<p>> : p \in PatStrings} \cup
            {<<p, q>> : p \in PatStrings, q \in PatStrings}
Timeouts == 0..MaxTimeout
\* expect's default timeout (30.0 s), scaled to the model's largest timeout
DefaultTimeout == MaxTimeout
NoOutcome == [kind |-> "none", i |-> -1]
NoReturn == [kind |-> "none", out |-> << >>]

\* buf[from..to]
Slice(buf, from, to) == SubSeq(buf, from, to)
\* a trim that empties the buffer
DiscardAll(buf, e) == << >>
\* the text after offset e (Python buf[e:])
After(buf, e) == SubSeq(buf, e + 1, Len(buf))

\* the end offsets of the occurrences of the literal p in buf
MatchEnds(p, buf) ==
    {e \in Len(p)..Len(buf) : Slice(buf, e - Len(p) + 1, e) = p}
\* pattern.search(buf) finds something
Matches(p, buf) == MatchEnds(p, buf) # {}
\* match.end() of pattern.search(buf): the leftmost occurrence
MatchEnd(p, buf) == CHOOSE e \in MatchEnds(p, buf) :
                        \A f \in MatchEnds(p, buf) : e <= f

\* the start offset of the leftmost occurrence of p in buf
MatchStart(p, buf) == MatchEnd(p, buf) - Len(p)

\* an engine in which the leftmost match in the buffer wins
WinnerByOffset(pats, buf) ==
    LET hit == {i \in 1..Len(pats) : Matches(pats[i], buf)} IN
    IF hit = {} THEN 0
    ELSE CHOOSE i \in hit : \A j \in hit :
            \/ MatchStart(pats[i], buf) < MatchStart(pats[j], buf)
            \/ MatchStart(pats[i], buf) = MatchStart(pats[j], buf) /\ i <= j
\* for i, pattern in enumerate(compiled_patterns): the first pattern, in
\* list order, that matches; 0 when none does (1-based position)
Winner(pats, buf) ==
    LET hit == {i \in 1..Len(pats) : Matches(pats[i], buf)} IN
    IF hit = {} THEN 0 ELSE CHOOSE i \in hit : \A j \in hit : i <= j

\* new_data = self.pty_handler.read(), not awaited.  PTYHandler.read is a
\* coroutine function: the call returns a coroutine object.  The channel
\* double of the tests returns a str.
ReadCall(kind, pending) ==
    IF kind = "pty" THEN [type |-> "coroutine", data |-> << >>]
    ELSE [type |-> "str", data |-> pending]

\* return self._buffer, line 141
SendCommandResult(buf) == buf

\* how an expect call ends, seen by its caller: send_command returns the
\* buffer after an index and lets an error through
Finish(outcome, buf) ==
    /\ ePc' = "idle"
    /\ eOutcome' = outcome
    /\ cmdRet' = IF eCaller # "send_command" THEN cmdRet
                 ELSE IF outcome.kind = "index"
                      THEN [kind |-> "returned",
                            out |-> SendCommandResult(buf)]
                      ELSE [kind |-> outcome.kind, out |-> << >>]

\* PexpectHandler.expect is called (by the facade's expect route)
ExpectCall(pats, timeout) ==
    /\ ePc = "idle"
    /\ ePc' = "loop"
    /\ eCaller' = "expect"
    /\ ePats' = pats
    /\ eTimeout' = timeout
    /\ eElapsed' = 0
    /\ eOutcome' = NoOutcome
    /\ eSearched' = << >>
    /\ eAccum' = buffer
    /\ UNCHANGED <<chanKind, patterns,
                   buffer, chan, nEmitted, lastWrite, cmdRet,
                   cmdEmitted>>
    /\ UNCHANGED otherThanExp

\* one iteration of expect's loop, lines 77-92: read, append, test the
\* patterns, sleep
ExpectIterate ==
    /\ ePc = "loop"
    /\ eElapsed < eTimeout
    /\ LET new_data == ReadCall(chanKind, chan) IN
       IF new_data.type = "coroutine"
       THEN \* a coroutine object is truthy; str += coroutine raises
            /\ Finish([kind |-> "TypeError", i |-> -1], buffer)
            /\ UNCHANGED <<buffer, chan, eElapsed, eAccum, eSearched>>
       ELSE LET buf == buffer \o new_data.data
                w == Winner(ePats, buf) IN
            /\ chan' = << >>
            /\ eSearched' = buf
            /\ eAccum' = eAccum \o new_data.data
            /\ IF w # 0
               THEN /\ buffer' = After(buf, MatchEnd(ePats[w], buf))
                    /\ Finish([kind |-> "index", i |-> w - 1],
                              After(buf, MatchEnd(ePats[w], buf)))
                    /\ UNCHANGED eElapsed
               ELSE /\ buffer' = buf
                    /\ eElapsed' = eElapsed + 1
                    /\ UNCHANGED <<ePc, eOutcome, cmdRet>>
    /\ UNCHANGED <<chanKind, patterns,
                   nEmitted, lastWrite, eCaller, ePats, eTimeout,
                   cmdEmitted>>
    /\ UNCHANGED otherThanExp

\* the loop condition fails: raise TimeoutError, line 94
ExpectTimeout ==
    /\ ePc = "loop"
    /\ ~(eElapsed < eTimeout)
    /\ Finish([kind |-> "TimeoutError", i |-> -1], buffer)
    /\ UNCHANGED <<chanKind, patterns,
                   buffer, chan, nEmitted, lastWrite, eCaller, ePats,
                   eTimeout, eElapsed, eSearched, eAccum, cmdEmitted>>
    /\ UNCHANGED otherThanExp

\* the command of a send_command call made on its own: "ls"
Ls == <<"l", "s">>
\* what sendline(line) hands to send: f"{line}\n"
Sendline(line) == line \o <<"\n">>

\* PexpectHandler.send_command: clear the buffer, sendline, expect(prompt)
SendCommandBody(command, expect_prompt, prompt) ==
    /\ ePc = "idle"
    /\ buffer' = << >>
    /\ lastWrite' = Sendline(command)
    /\ cmdEmitted' = << >>
    /\ eCaller' = "send_command"
    /\ IF expect_prompt
       THEN /\ ePc' = "loop"
            /\ ePats' = <<prompt>>
            /\ eTimeout' = DefaultTimeout
            /\ eElapsed' = 0
            /\ eOutcome' = NoOutcome
            /\ eSearched' = << >>
            /\ eAccum' = << >>
            /\ cmdRet' = NoReturn
       ELSE /\ cmdRet' = [kind |-> "returned", out |-> SendCommandResult(<< >>)]
            /\ eOutcome' = NoOutcome
            /\ UNCHANGED <<ePc, ePats, eTimeout, eElapsed, eSearched, eAccum>>
    /\ UNCHANGED <<chanKind, patterns,
                   chan, nEmitted>>

\* a send_command call made on its own
SendCommand(expect_prompt, prompt) ==
    /\ SendCommandBody(Ls, expect_prompt, prompt)
    /\ UNCHANGED otherThanExp

\* the backend process writes a byte to the channel
BackendEmitByte(ch) ==
    /\ nEmitted < MaxEmit
    /\ nEmitted' = nEmitted + 1
    /\ chan' = Append(chan, ch)
    /\ cmdEmitted' = IF eCaller = "send_command" /\ ePc = "loop"
                     THEN Append(cmdEmitted, ch) ELSE cmdEmitted
    /\ UNCHANGED <<chanKind, patterns,
                   buffer, lastWrite, ePc, eCaller, ePats, eTimeout,
                   eElapsed, eOutcome, cmdRet, eSearched, eAccum>>
    /\ UNCHANGED otherThanExp

\* PexpectHandler.__init__ around either kind of channel
ExpInit ==
    /\ chanKind \in {"pty", "sync"}
    /\ buffer = << >>
    /\ patterns = << >>
    /\ chan = << >>
    /\ nEmitted = 0
    /\ lastWrite = << >>
    /\ ePc = "idle"
    /\ eCaller = "none"
    /\ ePats = << >>
    /\ eTimeout = 0
    /\ eElapsed = 0
    /\ eOutcome = NoOutcome
    /\ cmdRet = NoReturn
    /\ eSearched = << >>
    /\ eAccum = << >>
    /\ cmdEmitted = << >>

\* the engine idle, as the registry and the relay loop see it
ExpIdle == ExpInit /\ chanKind = "pty"

ExpNext ==
    \/ \E pats \in PatLists, t \in Timeouts : ExpectCall(pats, t)
    \/ ExpectIterate
    \/ ExpectTimeout
    \/ \E e \in BOOLEAN, p \in PatStrings : SendCommand(e, p)
    \/ \E ch \in Alphabet : BackendEmitByte(ch)

----------------------------------------------------------------------------
(* One execute_script request on an automation-enabled session *)

Pwd == <<"p", "w", "d">>
\* request.commands: the lists of up to MaxCmds commands
CmdLists == UNION {[1..n -> {Ls, Pwd}] : n \in 0..MaxCmds}
\* request.expect_prompts: absent or empty, shorter than the commands, or
\* one prompt for each of two commands
PromptLists == {<< >>, << <<"a">> >>, << <<"a">>, <<"b">> >>}
\* the prompt used when the request names none: "$"
Dollar == <<"$">>

\* line 54: the prompt of the i-th command (1-based)
PromptFor(prompts, i) ==
    IF prompts # << >> /\ i <= Len(prompts) THEN prompts[i] ELSE Dollar

\* the dict appended for a command that returned, lines 62-66
Succeeded(command, output) ==
    [command |-> command, output |-> output, success |-> TRUE]
\* the dict appended by `except TimeoutError`, lines 69-73
Failed(command) ==
    [command |-> command, output |-> <<"Pattern not found">>, success |-> FALSE]

\* the request ends: `return` of lines 75-78, or an exception leaves it
ScriptEnds(how) ==
    /\ scrPc' = "done"
    /\ scrRet' = how

\* execute_script is called for a session that has an engine; it runs up
\* to the first send_command, which blocks the event loop until it ends
ExecuteScript(commands, prompts) ==
    /\ scrPc # "running"
    /\ ePc = "idle"
    /\ scrCommands' = commands
    /\ scrPrompts' = prompts
    /\ scrResults' = << >>
    /\ IF commands = << >>
       THEN /\ ScriptEnds("returned")
            /\ scrSent' = << >>
            /\ UNCHANGED expVars
       ELSE /\ scrPc' = "running"
            /\ scrRet' = "none"
            /\ scrSent' = <<Sendline(commands[1])>>
            /\ SendCommandBody(commands[1], TRUE, PromptFor(prompts, 1))
    /\ UNCHANGED <<regVars, relayVars, sessVars, wsVars>>

\* the send_command call of the current command has ended: its result is
\* recorded and the loop goes on to the next command, or the request ends
ScriptStep ==
    /\ scrPc = "running"
    /\ ePc = "idle"
    /\ LET i == Len(scrResults) + 1 IN
       CASE cmdRet.kind = "returned" ->
              /\ scrResults' = Append(scrResults,
                                      Succeeded(scrCommands[i], cmdRet.out))
              /\ IF i < Len(scrCommands)
                 THEN /\ scrSent' = Append(scrSent, Sendline(scrCommands[i + 1]))
                      /\ SendCommandBody(scrCommands[i + 1], TRUE,
                                         PromptFor(scrPrompts, i + 1))
                      /\ UNCHANGED <<scrPc, scrRet>>
                 ELSE /\ ScriptEnds("returned")
                      /\ UNCHANGED <<scrSent, expVars>>
         [] cmdRet.kind = "TimeoutError" ->
              /\ scrResults' = Append(scrResults, Failed(scrCommands[i]))
              /\ ScriptEnds("returned")
              /\ UNCHANGED <<scrSent, expVars>>
         [] OTHER ->
              \* no except clause for it: the exception leaves the handler
              /\ ScriptEnds(cmdRet.kind)
              /\ UNCHANGED <<scrResults, scrSent, expVars>>
    /\ UNCHANGED <<scrCommands, scrPrompts>>
    /\ UNCHANGED <<regVars, relayVars, sessVars, wsVars>>

\* no request has been made
ScrInit ==
    /\ scrPc = "idle"
    /\ scrCommands = << >>
    /\ scrPrompts = << >>
    /\ scrResults = << >>
    /\ scrSent = << >>
    /\ scrRet = "none"

NextScript ==
    \/ \E commands \in CmdLists, prompts \in PromptLists :
          ExecuteScript(commands, prompts)
    \/ ScriptStep
    \/ ExpectIterate
    \/ ExpectTimeout
    \/ \E ch \in Alphabet : BackendEmitByte(ch)

----------------------------------------------------------------------------
(* One Session object: send_input, resize, close *)

\* text is a sequence of code points, bytes a sequence of octets
\* the data of send_input: "a" and "e-acute"
Inputs == {<<97>>, <<233>>, <<97, 233>>}
\* the (rows, cols) of resize
Sizes == {<<24, 80>>}

\* the UTF-8 octets of one code point below 2048
Utf8(c) == IF c < 128 THEN <<c>> ELSE <<192 + (c \div 64), 128 + (c % 64)>>
\* str.encode()
RECURSIVE Encode(_)
Encode(str) == IF str = << >> THEN << >> ELSE Utf8(Head(str)) \o Encode(Tail(str))

\* no direct read has been made
NoRead == [kind |-> "none", data |-> << >>]

\* one call: who makes it, what is called, with what
Call(by, what, arg) == [by |-> by, call |-> what, arg |-> arg]

\* a write that does not look at _connected
PtyWriteUnchecked(by, connected, bytes) ==
    <<Call(by, "pty.write", bytes), Call("pty", "socket.send", bytes)>>
\* PTYHandler.write(data): nothing when not connected, else socket.send
PtyWrite(by, connected, bytes) ==
    <<Call(by, "pty.write", bytes)>> \o
    (IF connected THEN <<Call("pty", "socket.send", bytes)>> ELSE << >>)

\* PexpectHandler.send(data): self.pty_handler.write(data.encode())
PexpectSend(by, connected, data) ==
    <<Call(by, "pexpect.send", data)>> \o
    PtyWrite("engine", connected, Encode(data))

\* a send_input that writes to the channel itself as well as to the engine
SendInputBothSinks(engine, connected, data) ==
    (IF engine THEN PexpectSend("session", connected, data) ELSE << >>) \o
    PtyWrite("session", connected, Encode(data))
\* Session.send_input after the last_activity update, lines 67-70
SendInputCalls(engine, connected, data) ==
    IF engine THEN PexpectSend("session", connected, data)
    ELSE PtyWrite("session", connected, Encode(data))

\* a close that releases the channel before the engine
CloseCallsChannelFirst(engine, failed) ==
    <<Call("session", "active=False", << >>),
      Call("session", "pty.close", << >>),
      Call("pty", "socket.close", << >>)>> \o
    (IF failed THEN <<Call("pty", "logger.error", << >>)>> ELSE << >>) \o
    (IF engine THEN <<Call("session", "pexpect.close", << >>)>> ELSE << >>)
\* Session.close, lines 83-86, and PTYHandler.close: socket.close() in a
\* try/except that logs
CloseCalls(engine, failed) ==
    <<Call("session", "active=False", << >>)>> \o
    (IF engine THEN <<Call("session", "pexpect.close", << >>)>> ELSE << >>) \o
    <<Call("session", "pty.close", << >>),
      Call("pty", "socket.close", << >>)>> \o
    (IF failed THEN <<Call("pty", "logger.error", << >>)>> ELSE << >>)

\* a clock that runs backwards
UtcnowBackwards == MaxTime - now
\* datetime.utcnow()
Utcnow == now

\* what session.send_input(data) does to the Session
SessionSendInputBody(data) ==
    /\ sLastActivity' = Utcnow
    /\ sCalls' = SendInputCalls(sEngine, rConnected, data)
    /\ sError' = "none"
    /\ UNCHANGED <<chRet, sEngine, sRegistered, sCloses>>

\* session.send_input(data)
SessionSendInputOp(data) ==
    /\ SessionSendInputBody(data)
    /\ UNCHANGED <<regVars, relayVars, expVars, wsVars, scrVars>>

\* session.resize(rows, cols): PTYHandler.resize catches what the Docker
\* API raises
SessionResizeBody(size) ==
    /\ sCalls' = <<Call("session", "pty.resize", size)>>
    /\ sError' = "none"
    /\ UNCHANGED <<chRet, sEngine, sLastActivity, sRegistered, sCloses>>

\* session.resize(rows, cols)
SessionResizeOp(size) ==
    /\ SessionResizeBody(size)
    /\ UNCHANGED <<regVars, relayVars, expVars, wsVars, scrVars>>

\* a close_session that closes the Session and leaves it in the map
DeleteSkipped(registered, viaRegistry) == registered
\* close_session, line 178: del self.sessions[session_id]
RegisteredAfterClose(registered, viaRegistry) == registered /\ ~viaRegistry

\* session.close(), on its own (viaRegistry false) or from close_session,
\* which then deletes the map entry; socket.close() may raise
SessionCloseOp(viaRegistry, failed) ==
    /\ viaRegistry => sRegistered
    /\ ePc = "idle"
    /\ sCloses < MaxCloses
    /\ sCloses' = sCloses + 1
    /\ rActive' = FALSE
    /\ rConnected' = FALSE
    /\ buffer' = IF sEngine THEN << >> ELSE buffer
    /\ patterns' = IF sEngine THEN << >> ELSE patterns
    /\ sCalls' = CloseCalls(sEngine, failed)
    /\ sError' = "none"
    /\ sRegistered' = RegisteredAfterClose(sRegistered, viaRegistry)
    /\ UNCHANGED <<chRet, sEngine, sLastActivity>>
    /\ UNCHANGED <<callbacks, rPc, backend, emitted, readLog, invoked>>
    /\ UNCHANGED <<chanKind, chan, nEmitted, lastWrite, ePc, eCaller, ePats,
                   eTimeout, eElapsed, eOutcome, cmdRet, eSearched, eAccum,
                   cmdEmitted>>
    /\ UNCHANGED <<regVars, wsVars, scrVars>>

\* PTYHandler.read(): "" at once when not connected (line 86), else what
\* socket.recv gives: the next pending chunk, or nothing
PtyRead(connected, got, pending) ==
    IF connected
    THEN [calls |-> <<Call("pty", "socket.recv", << >>)>>,
          data |-> IF got /\ pending # << >> THEN <<Head(pending)>>
                   ELSE << >>]
    ELSE [calls |-> << >>, data |-> << >>]

\* a caller awaits pty_handler.read() to its end
PtyReadOp(got) ==
    /\ LET r == PtyRead(rConnected, got, backend) IN
        /\ chRet' = [kind |-> "returned", data |-> r.data]
        /\ sCalls' = <<Call("caller", "pty.read", << >>)>> \o r.calls
        /\ backend' = IF r.data # << >> THEN Tail(backend) ELSE backend
    /\ sError' = "none"
    /\ UNCHANGED <<sEngine, sLastActivity, sRegistered, sCloses>>
    /\ UNCHANGED <<callbacks, rActive, rConnected, rPc, emitted, readLog,
                   invoked>>
    /\ UNCHANGED <<regVars, expVars, wsVars, scrVars>>

\* a channel whose methods let the transport's exception through
ChannelErrorRaised(failed) == IF failed THEN "Exception" ELSE "none"
\* what leaves PTYHandler.read, write and resize when the transport raised:
\* `except Exception` (lines 101, 116, 139) logs, nothing is raised
ChannelError(failed) == "none"

\* the calls of a channel operation whose transport call raised
Logged == <<Call("pty", "logger.error", << >>)>>

\* session.send_input(data) when socket.send raises
SessionSendInputFails(data) ==
    /\ rConnected
    /\ sLastActivity' = Utcnow
    /\ sCalls' = SendInputCalls(sEngine, rConnected, data) \o Logged
    /\ sError' = ChannelError(TRUE)
    /\ UNCHANGED <<chRet, sEngine, sRegistered, sCloses>>
    /\ UNCHANGED <<regVars, relayVars, expVars, wsVars, scrVars>>

\* session.resize(rows, cols) when the Docker API raises
SessionResizeFails(size) ==
    /\ sCalls' = <<Call("session", "pty.resize", size)>> \o Logged
    /\ sError' = ChannelError(TRUE)
    /\ UNCHANGED <<chRet, sEngine, sLastActivity, sRegistered, sCloses>>
    /\ UNCHANGED <<regVars, relayVars, expVars, wsVars, scrVars>>

\* the relay task's read when socket.recv raises: read returns "" and the
\* loop sleeps; an exception out of read would end the loop at line 220
RelayReadFails ==
    /\ rPc = "reading"
    /\ sCalls' = <<Call("relay", "pty.read", << >>)>> \o Logged
    /\ sError' = "none"
    /\ IF ChannelError(TRUE) = "none"
       THEN /\ rPc' = "sleeping"
            /\ rActive' = rActive
       ELSE /\ rPc' = "done"
            /\ rActive' = FALSE
    /\ UNCHANGED <<callbacks, rConnected, backend, emitted, readLog, invoked>>
    /\ UNCHANGED <<chRet, sEngine, sLastActivity, sRegistered, sCloses>>
    /\ UNCHANGED <<regVars, expVars, wsVars, scrVars>>

\* an engine whose close also closes the channel it wraps
PexpectCloseClosesChannel ==
    <<Call("engine", "pty.close", << >>), Call("pty", "socket.close", << >>)>>
\* the calls PexpectHandler.close makes on the channel, lines 149-151: none
PexpectCloseCalls == << >>

\* PTYHandler._connected after the calls: close sets it to False
ConnectedAfter(connected, calls) ==
    connected /\ \A k \in 1..Len(calls) : calls[k].call # "pty.close"

\* PexpectHandler.close called on its own
PexpectClose ==
    /\ ePc = "idle"
    /\ buffer' = << >>
    /\ patterns' = << >>
    /\ sCalls' = <<Call("caller", "pexpect.close", << >>)>> \o PexpectCloseCalls
    /\ rConnected' = ConnectedAfter(rConnected, PexpectCloseCalls)
    /\ sError' = "none"
    /\ UNCHANGED <<chRet, sEngine, sLastActivity, sRegistered, sCloses>>
    /\ UNCHANGED <<callbacks, rActive, rPc, backend, emitted, readLog, invoked>>
    /\ UNCHANGED <<chanKind, chan, nEmitted, lastWrite, ePc, eCaller, ePats,
                   eTimeout, eElapsed, eOutcome, cmdRet, eSearched, eAccum,
                   cmdEmitted>>
    /\ UNCHANGED <<regVars, wsVars, scrVars>>

\* a session as create_session builds it, with an engine
SessInitEngine ==
    /\ sEngine = TRUE
    /\ sLastActivity = 0
    /\ sRegistered = TRUE
    /\ sCalls = << >>
    /\ sCloses = 0
    /\ sError = "none"
    /\ chRet = NoRead

\* a session as create_session builds it, without an engine
SessInit ==
    /\ sEngine = FALSE
    /\ sLastActivity = 0
    /\ sRegistered = TRUE
    /\ sCalls = << >>
    /\ sCloses = 0
    /\ sError = "none"
    /\ chRet = NoRead

\* a session as create_session builds it, with or without an engine
SessInitAny ==
    /\ sEngine \in BOOLEAN
    /\ sLastActivity = 0
    /\ sRegistered = TRUE
    /\ sCalls = << >>
    /\ sCloses = 0
    /\ sError = "none"
    /\ chRet = NoRead

SessNext ==
    \/ \E data \in Inputs : SessionSendInputOp(data)
    \/ \E size \in Sizes : SessionResizeOp(size)
    \/ \E v \in BOOLEAN, f \in BOOLEAN : SessionCloseOp(v, f)
    \/ Tick

\* a resize that counts as activity
ResizeTouches(id) == [sessObj EXCEPT ![id] = SessionSendInput(@, now)]
\* the Session objects after get_session(id).resize(rows, cols): lines
\* 78-79 call pty_handler.resize and assign nothing
ResizeEffect(id) == sessObj

\* resize of a registered session (the facade answers 404 otherwise)
Resize(id, size) ==
    /\ GetSession(id) # None
    /\ sessObj' = ResizeEffect(id)
    /\ sCalls' = <<Call("session", "pty.resize", size)>>
    /\ lastResize' = [id |-> id, at |-> now]
    /\ lastOp' = Op("resize", id, "None")
    /\ UNCHANGED <<sessions, pty, connects, usePexpect, relay, nextId, now,
                   closedIds, lastInput, listed>>
    /\ UNCHANGED <<chRet, sEngine, sLastActivity, sRegistered, sCloses, sError>>
    /\ UNCHANGED <<relayVars, expVars, wsVars, scrVars>>

----------------------------------------------------------------------------
(* An automation-enabled session: the relay loop and the engine read the  *)
(* same PTYHandler (create_session, lines 129-148)                        *)

\* expect and send_command are plain functions that the routes call from
\* coroutines and that wait in time.sleep: while one of them runs, no task
\* of the event loop does
LoopFree == ePc = "idle"

\* the recv the relay task has in flight (it runs in the executor's thread)
\* returns the bytes the backend has written
RelayRecvBytes ==
    /\ rPc = "reading"
    /\ rConnected
    /\ chan # << >>
    /\ chan' = << >>
    /\ readLog' = Append(readLog, chan)
    /\ rPc' = "received"
    /\ UNCHANGED <<callbacks, rActive, rConnected, backend, emitted, invoked>>
    /\ UNCHANGED <<chanKind, buffer, patterns, nEmitted, lastWrite, ePc,
                   eCaller, ePats, eTimeout, eElapsed, eOutcome, cmdRet,
                   eSearched, eAccum, cmdEmitted>>
    /\ UNCHANGED <<regVars, sessVars, wsVars, scrVars>>

\* the relay task is resumed with what its read returned: the delivery
\* pass of lines 209-215, then the loop test
RelayResume ==
    /\ rPc = "received"
    /\ LoopFree
    /\ LET data == readLog[Len(readLog)]
           pass == DeliverPass(callbacks, data, invoked) IN
        /\ invoked' = pass.invoked
        /\ callbacks' = pass.callbacks
        /\ rPc' = LoopTop(rActive, rConnected)
    /\ UNCHANGED <<rActive, rConnected, backend, emitted, readLog>>
    /\ UNCHANGED otherThanRelay

NextShared ==
    \/ SendCommand(TRUE, <<"a">>)
    \/ \E t \in Timeouts : ExpectCall(<< <<"a">> >>, t)
    \/ ExpectIterate
    \/ ExpectTimeout
    \/ \E ch \in Alphabet : BackendEmitByte(ch)
    \/ LoopFree /\ RelayStart
    \/ LoopFree /\ RelayReadEmpty
    \/ LoopFree /\ RelayWake
    \/ RelayRecvBytes
    \/ RelayResume
    \/ LoopFree /\ AddOutputCallback(1)

----------------------------------------------------------------------------
(* One push-channel connection: websocket_endpoint and WebSocketManager *)

\* the session_id of the URL, as key of active_connections
SessionId == "session_id"
\* the connection of the handler, and another connection to the same id
Conn == "websocket"
OtherConn == "other"

\* what a client sends: frames with a type, and its leaving, which
\* receive_json reports by raising WebSocketDisconnect
ClientFrames ==
    {[type |-> "input", data |-> <<233>>],
     [type |-> "resize", data |-> <<24, 80>>],
     [type |-> "ping", data |-> << >>],
     [type |-> "noop", data |-> << >>]}
Disconnect == [type |-> "disconnect", data |-> << >>]
\* a JSON object without the key "type"
Malformed == [type |-> "malformed", data |-> << >>]

ErrorFrame == [type |-> "error", data |-> << >>]
PongFrame == [type |-> "pong", data |-> << >>]

\* an empty dict
NoConnections == [k \in {} |-> {}]

\* WebSocketManager.connect after accept: lines 28-31
WsConnect(ac, ws, sid) ==
    IF sid \in DOMAIN ac THEN [ac EXCEPT ![sid] = @ \cup {ws}]
    ELSE [k \in DOMAIN ac \cup {sid} |-> IF k = sid THEN {ws} ELSE ac[k]]

\* a disconnect that discards and keeps the emptied set in the map
WsDisconnectKeepsEmpty(ac, ws, sid) ==
    IF sid \notin DOMAIN ac THEN ac ELSE [ac EXCEPT ![sid] = @ \ {ws}]
\* WebSocketManager.disconnect: discard, and delete the entry when empty
WsDisconnect(ac, ws, sid) ==
    IF sid \notin DOMAIN ac THEN ac
    ELSE IF ac[sid] \ {ws} = {}
         THEN [k \in DOMAIN ac \ {sid} |-> ac[k]]
         ELSE [ac EXCEPT ![sid] = @ \ {ws}]

\* a handler that returns without telling the connection registry
UnknownSessionNoCleanup(ac, ws, sid) == ac
\* line 105: await ws_manager.disconnect(websocket, session_id)
UnknownSessionCleanup(ac, ws, sid) == WsDisconnect(ac, ws, sid)

\* a dispatch in which an input frame is also answered with a pong
DispatchInputAlsoPongs(type) ==
    IF type = "input" THEN {"send_input", "pong"}
    ELSE IF type = "resize" THEN {"resize"}
    ELSE IF type = "ping" THEN {"pong"}
    ELSE {}
\* lines 121-126: what the handler does with a frame of the type
Dispatch(type) ==
    IF type = "input" THEN {"send_input"}
    ELSE IF type = "resize" THEN {"resize"}
    ELSE IF type = "ping" THEN {"pong"}
    ELSE {}

\* orchestrator.session_manager.get_session(session_id) finds the session
WsFound == wsTarget = "live" /\ sRegistered

\* the client has left and the handler has not yet been told
ClientGone == wsIn # << >> /\ wsIn[Len(wsIn)] = Disconnect

\* accept() has returned: the connection is registered, the session is
\* looked up; then either the error frame is on its way or the output
\* callback is added and the handler waits for a frame
WsAccept ==
    /\ wsPc = "new"
    /\ active_connections' = WsConnect(active_connections, Conn, SessionId)
    /\ IF WsFound
       THEN /\ callbacks' = Append(callbacks, OutputCallback)
            /\ wsPc' = "receiving"
       ELSE /\ wsPc' = "sending_error"
            /\ UNCHANGED callbacks
    /\ UNCHANGED <<wsTarget, wsIn, wsLog, wsOut>>
    /\ UNCHANGED bcVars
    /\ UNCHANGED <<rActive, rConnected, rPc, backend, emitted, readLog, invoked>>
    /\ UNCHANGED <<regVars, expVars, sessVars, scrVars>>

\* the error frame is sent; disconnect; return, which ends the connection
WsErrorSent ==
    /\ wsPc = "sending_error"
    /\ wsOut' = Append(wsOut, ErrorFrame)
    /\ active_connections' =
          UnknownSessionCleanup(active_connections, Conn, SessionId)
    /\ wsPc' = "closed"
    /\ UNCHANGED <<wsTarget, wsIn, wsLog>>
    /\ UNCHANGED bcVars
    /\ UNCHANGED <<regVars, relayVars, expVars, sessVars, scrVars>>

\* the client sends a frame
ClientSend(frame) ==
    /\ wsPc \in {"receiving", "sending_pong"}
    /\ ~ClientGone
    /\ Len(wsLog) + Len(wsIn) < MaxFrames
    /\ wsIn' = Append(wsIn, frame)
    /\ UNCHANGED <<wsTarget, wsPc, active_connections, wsLog, wsOut>>
    /\ UNCHANGED bcVars
    /\ UNCHANGED <<regVars, relayVars, expVars, sessVars, scrVars>>

\* the client leaves
ClientClose ==
    /\ wsPc \in {"receiving", "sending_pong"}
    /\ ~ClientGone
    /\ wsIn' = Append(wsIn, Disconnect)
    /\ UNCHANGED <<wsTarget, wsPc, active_connections, wsLog, wsOut>>
    /\ UNCHANGED bcVars
    /\ UNCHANGED <<regVars, relayVars, expVars, sessVars, scrVars>>

\* except WebSocketDisconnect, lines 128-130
WsCleanup ==
    /\ callbacks' = IF OutputCallback \in Range(callbacks)
                    THEN RemoveFirst(callbacks, OutputCallback) ELSE callbacks
    /\ active_connections' = WsDisconnect(active_connections, Conn, SessionId)
    /\ wsPc' = "closed"

\* receive_json returns the next frame, or raises WebSocketDisconnect
WsReceive ==
    /\ wsPc = "receiving"
    /\ wsIn # << >>
    /\ Head(wsIn) # Malformed
    /\ LET frame == Head(wsIn)
           did == Dispatch(frame.type) IN
        /\ wsIn' = Tail(wsIn)
        /\ IF frame = Disconnect
           THEN /\ WsCleanup
                /\ UNCHANGED <<wsLog, sessVars>>
           ELSE /\ wsLog' = Append(wsLog, [type |-> frame.type, did |-> did])
                /\ wsPc' = IF "pong" \in did THEN "sending_pong" ELSE "receiving"
                /\ IF "send_input" \in did THEN SessionSendInputBody(frame.data)
                   ELSE IF "resize" \in did THEN SessionResizeBody(frame.data)
                   ELSE UNCHANGED sessVars
                /\ UNCHANGED <<callbacks, active_connections>>
    /\ UNCHANGED <<wsTarget, wsOut>>
    /\ UNCHANGED bcVars
    /\ UNCHANGED <<rActive, rConnected, rPc, backend, emitted, readLog, invoked>>
    /\ UNCHANGED <<regVars, expVars, scrVars>>

\* receive_json returns an object without "type": data["type"] (line 121)
\* raises KeyError, which is not a WebSocketDisconnect and ends the handler
WsReceiveMalformed ==
    /\ wsPc = "receiving"
    /\ wsIn # << >>
    /\ Head(wsIn) = Malformed
    /\ wsIn' = Tail(wsIn)
    /\ wsLog' = Append(wsLog, [type |-> Malformed.type, did |-> {"KeyError"}])
    /\ wsPc' = "failed"
    /\ UNCHANGED <<wsTarget, active_connections, wsOut>>
    /\ UNCHANGED bcVars
    /\ UNCHANGED <<regVars, relayVars, expVars, sessVars, scrVars>>

\* send_json({"type": "pong"}) has sent the frame
WsPongSent ==
    /\ wsPc = "sending_pong"
    /\ ~ClientGone
    /\ wsOut' = Append(wsOut, PongFrame)
    /\ wsPc' = "receiving"
    /\ UNCHANGED <<wsTarget, active_connections, wsIn, wsLog>>
    /\ UNCHANGED bcVars
    /\ UNCHANGED <<regVars, relayVars, expVars, sessVars, scrVars>>

\* send_json raises because the client has left: WebSocketDisconnect, which
\* the handler catches, or another exception, which ends the handler
WsPongFails(caught) ==
    /\ wsPc = "sending_pong"
    /\ ClientGone
    /\ IF caught
       THEN WsCleanup
       ELSE /\ wsPc' = "failed"
            /\ UNCHANGED <<callbacks, active_connections>>
    /\ UNCHANGED <<wsTarget, wsIn, wsLog, wsOut>>
    /\ UNCHANGED bcVars
    /\ UNCHANGED <<rActive, rConnected, rPc, backend, emitted, readLog, invoked>>
    /\ UNCHANGED <<regVars, expVars, sessVars, scrVars>>

\* another connection to the same session id is accepted
OtherConnect ==
    /\ OtherConn \notin UNION {active_connections[k] : k \in DOMAIN active_connections}
    /\ active_connections' = WsConnect(active_connections, OtherConn, SessionId)
    /\ UNCHANGED <<wsTarget, wsPc, wsIn, wsLog, wsOut>>
    /\ UNCHANGED bcVars
    /\ UNCHANGED <<regVars, relayVars, expVars, sessVars, scrVars>>

\* the handler of the other connection disconnects it
OtherDisconnect ==
    /\ OtherConn \in UNION {active_connections[k] : k \in DOMAIN active_connections}
    /\ active_connections' = WsDisconnect(active_connections, OtherConn, SessionId)
    /\ UNCHANGED <<wsTarget, wsPc, wsIn, wsLog, wsOut>>
    /\ UNCHANGED bcVars
    /\ UNCHANGED <<regVars, relayVars, expVars, sessVars, scrVars>>

\* no connection yet (the URL names the session)
WsInit ==
    /\ wsTarget = "live"
    /\ wsPc = "new"
    /\ active_connections = NoConnections
    /\ wsIn = << >>
    /\ wsLog = << >>
    /\ wsOut = << >>

\* no connection yet; the URL names the session or an id no session has
WsInitAny ==
    /\ wsTarget \in {"live", "unknown"}
    /\ wsPc = "new"
    /\ active_connections = NoConnections
    /\ wsIn = << >>
    /\ wsLog = << >>
    /\ wsOut = << >>

NextPush ==
    \/ WsAccept
    \/ WsErrorSent
    \/ \E frame \in ClientFrames : ClientSend(frame)
    \/ ClientSend(Malformed)
    \/ ClientClose
    \/ WsReceive
    \/ WsReceiveMalformed
    \/ WsPongSent
    \/ \E caught \in BOOLEAN : WsPongFails(caught)
    \/ OtherConnect
    \/ OtherDisconnect
    \/ RelayStart
    \/ RelayReadData
    \/ RelayReadEmpty
    \/ RelayWake
    \/ BackendEmit

----------------------------------------------------------------------------
(* The connection registry on its own: WebSocketManager *)

\* session ids and connections given to the WebSocketManager
Sids == {SessionId, "other_id"}
Conns == {Conn, OtherConn, "third"}

\* disconnect(ws, session_id) for each ws of the list, in order
RECURSIVE DisconnectAll(_, _, _)
DisconnectAll(ac, wss, sid) ==
    IF wss = << >> THEN ac
    ELSE DisconnectAll(WsDisconnect(ac, Head(wss), sid), Tail(wss), sid)

\* a removal phase that disconnects every connection the pass sent to
PrunedAllSent(ac, failed, sent, sid) == DisconnectAll(ac, sent, sid)
\* lines 69-70: the connections of the list `disconnected` are disconnected
Pruned(ac, failed, sent, sid) == DisconnectAll(ac, failed, sid)

\* the set object the pass iterates: the entry of the map, or the emptied
\* set that `del` took out of the map
Iterated == IF dDetached \/ dSid \notin DOMAIN active_connections THEN {}
            ELSE active_connections[dSid]

\* the set iterator's check at each next(): "Set changed size during
\* iteration" when the set has another size than at the iterator's start
SizeChanged(used, size) == used # size

\* connect(websocket, session_id) once accept() has returned: lines 28-31.
\* An insertion into the set a pass iterates may rebuild its table.
BcConnect(ws, sid) ==
    /\ active_connections' = WsConnect(active_connections, ws, sid)
    /\ IF dPc = "sending" /\ sid = dSid /\ ~dDetached /\ ws \notin Iterated
       THEN dBehind' = {} /\ dLoose' = TRUE
       ELSE UNCHANGED <<dBehind, dLoose>>
    /\ UNCHANGED <<dPc, dSid, dCur, dUsed, dDetached, disconnected, dStart,
                   dSent, dStable, dRet>>
    /\ UNCHANGED <<wsTarget, wsPc, wsIn, wsLog, wsOut>>
    /\ UNCHANGED <<regVars, relayVars, expVars, sessVars, scrVars>>

\* disconnect(websocket, session_id): lines 41-46
BcDisconnect(ws, sid) ==
    /\ active_connections' = WsDisconnect(active_connections, ws, sid)
    /\ IF dPc = "sending" /\ sid = dSid
       THEN /\ dStable' = dStable \ {ws}
            /\ dDetached' = (dDetached \/ sid \notin DOMAIN active_connections')
       ELSE UNCHANGED <<dStable, dDetached>>
    /\ UNCHANGED <<dPc, dSid, dCur, dUsed, dBehind, dLoose, disconnected,
                   dStart, dSent, dRet>>
    /\ UNCHANGED <<wsTarget, wsPc, wsIn, wsLog, wsOut>>
    /\ UNCHANGED <<regVars, relayVars, expVars, sessVars, scrVars>>

\* send_to_session(session_id, message) up to its first send_json: nothing
\* for an id without an entry, else the iterator is made and gives the
\* first connection
BcDeliverStart(sid) ==
    /\ dPc \in {"idle", "done", "failed"}
    /\ dSid' = sid
    /\ disconnected' = << >>
    /\ dSent' = << >>
    /\ dBehind' = {}
    /\ dLoose' = FALSE
    /\ dDetached' = FALSE
    /\ IF sid \in DOMAIN active_connections
       THEN /\ dStart' = active_connections[sid]
            /\ dStable' = active_connections[sid]
            /\ dUsed' = Cardinality(active_connections[sid])
            /\ \E ws \in active_connections[sid] : dCur' = ws
            /\ dPc' = "sending"
            /\ dRet' = "none"
       ELSE /\ dStart' = {}
            /\ dStable' = {}
            /\ dUsed' = 0
            /\ dCur' = None
            /\ dPc' = "done"
            /\ dRet' = "returned"
    /\ UNCHANGED <<wsTarget, wsPc, active_connections, wsIn, wsLog, wsOut>>
    /\ UNCHANGED <<regVars, relayVars, expVars, sessVars, scrVars>>

\* the pass is over and its iterator is dropped
IteratorDropped ==
    /\ dCur' = None
    /\ dUsed' = 0
    /\ dBehind' = {}
    /\ dLoose' = FALSE
    /\ dDetached' = FALSE

\* the iterator is exhausted: lines 69-70, which do not suspend
BcDeliverEnd(failed) ==
    /\ active_connections' = Pruned(active_connections, failed, dSent', dSid)
    /\ dPc' = "done"
    /\ dRet' = "returned"
    /\ IteratorDropped
    /\ UNCHANGED dStable

\* send_json returns or raises (lines 62-66), and the loop asks the
\* iterator for the next connection
BcDeliverSend(ok) ==
    /\ dPc = "sending"
    /\ dSent' = Append(dSent, dCur)
    /\ LET failed == IF ok THEN disconnected ELSE Append(disconnected, dCur)
           behind == dBehind \cup {dCur}
           ahead == Iterated \ behind IN
        /\ disconnected' = failed
        /\ IF SizeChanged(dUsed, Cardinality(Iterated))
           THEN /\ dPc' = "failed"
                /\ dRet' = "RuntimeError"
                /\ IteratorDropped
                /\ UNCHANGED <<active_connections, dStable>>
           ELSE \/ /\ ahead = {} \/ dLoose \/ Len(dSent) + 1 >= MaxSends
                   /\ BcDeliverEnd(failed)
                \/ /\ Len(dSent) + 1 < MaxSends
                   /\ \E ws \in ahead : dCur' = ws
                   /\ dBehind' = behind
                   /\ UNCHANGED <<dPc, dRet, active_connections, dUsed, dLoose,
                                  dDetached, dStable>>
    /\ UNCHANGED <<dSid, dStart>>
    /\ UNCHANGED <<wsTarget, wsPc, wsIn, wsLog, wsOut>>
    /\ UNCHANGED <<regVars, relayVars, expVars, sessVars, scrVars>>

\* no pass has been made
BcInit ==
    /\ dPc = "idle"
    /\ dSid = None
    /\ dCur = None
    /\ dUsed = 0
    /\ dDetached = FALSE
    /\ dBehind = {}
    /\ dLoose = FALSE
    /\ disconnected = << >>
    /\ dStart = {}
    /\ dSent = << >>
    /\ dStable = {}
    /\ dRet = "none"

\* the operations, each run to its end before the next is called
NextBroadcast ==
    \/ \E ws \in Conns, sid \in Sids : dPc # "sending" /\ BcConnect(ws, sid)
    \/ \E ws \in Conns, sid \in Sids : dPc # "sending" /\ BcDisconnect(ws, sid)
    \/ \E sid \in Sids : BcDeliverStart(sid)
    \/ \E ok \in BOOLEAN : BcDeliverSend(ok)

\* the operations called by concurrent tasks: connect and disconnect (for
\* one session id) may run while a pass is suspended in send_json
NextBroadcastLive ==
    \/ \E ws \in Conns : BcConnect(ws, SessionId)
    \/ \E ws \in Conns : BcDisconnect(ws, SessionId)
    \/ \E sid \in Sids : BcDeliverStart(sid)
    \/ \E ok \in BOOLEAN : BcDeliverSend(ok)

----------------------------------------------------------------------------
(* The specifications *)

Init == RegInit /\ RelayInit /\ ExpIdle /\ SessInit /\ WsInit /\ ScrInit /\ BcInit

Next ==
    \/ CreateSessionCheck(FALSE)
    \/ \E sid \in Ids : CreateSessionFinish(sid)
    \/ \E sid \in Ids : CreateSessionConnectFails(sid)
    \/ \E id \in IdArgs : CloseSession(id)
    \/ ReaperPass
    \/ Cleanup
    \/ \E id \in Ids : SendInput(id)
    \/ Tick

Spec == Init /\ [][Next]_vars

\* create_session with and without automation, next to close_session
NextCreate ==
    \/ \E use_pexpect \in BOOLEAN : CreateSessionCheck(use_pexpect)
    \/ \E sid \in Ids : CreateSessionFinish(sid)
    \/ \E sid \in Ids : CreateSessionConnectFails(sid)
    \/ \E id \in IdArgs : CloseSession(id)

SpecCreate == Init /\ [][NextCreate]_vars

\* list_sessions next to the operations that change the registry
NextList ==
    \/ ListSessions
    \/ CreateSessionCheck(FALSE)
    \/ \E sid \in Ids : CreateSessionFinish(sid)
    \/ \E id \in IdArgs : CloseSession(id)
    \/ Tick

SpecList == Init /\ [][NextList]_vars

\* one session's relay loop and subscribers
SpecRelay == Init /\ [][RelayNext]_vars

\* the relay loop with subscribers that unsubscribe themselves when called
NextRelayLive ==
    \/ RelayStart
    \/ RelayReadData
    \/ RelayReadEmpty
    \/ RelayWake
    \/ \E cb \in AllCallbacks : AddOutputCallback(cb)
    \/ BackendEmit

SpecRelayLive == Init /\ [][NextRelayLive]_vars

\* the steps of the relay task
RelayTask == RelayStart \/ RelayReadData \/ RelayReadEmpty \/ RelayWake

\* the relay loop of a session that is closed at some point
NextRelayStop ==
    \/ RelayStart
    \/ RelayReadData
    \/ RelayReadEmpty
    \/ RelayWake
    \/ \E cb \in Callbacks : AddOutputCallback(cb)
    \/ RelaySessionClose
    \/ BackendEmit

\* the event loop runs the relay task whenever it can run, and every read
\* and sleep it awaits returns; the backend, the subscribers and the caller
\* of close are free to do nothing
SpecRelayStop == Init /\ [][NextRelayStop]_vars /\ WF_vars(RelayTask)

\* an engine around either kind of channel
InitExpect == RegInit /\ RelayInit /\ ExpInit /\ SessInit /\ WsInit /\ ScrInit /\ BcInit

SpecExpect == InitExpect /\ [][ExpNext]_vars

\* execute_script requests on an engine around either kind of channel
SpecScript == InitExpect /\ [][NextScript]_vars

\* the engine of a session, used through expect and closed on its own or
\* by Session.close
NextEngineClose ==
    \/ \E t \in Timeouts : ExpectCall(<< <<"a", "b">> >>, t)
    \/ ExpectIterate
    \/ ExpectTimeout
    \/ \E ch \in Alphabet : BackendEmitByte(ch)
    \/ PexpectClose
    \/ \E f \in BOOLEAN : SessionCloseOp(FALSE, f)

InitEngineClose ==
    RegInit /\ RelayInit /\ ExpInit /\ SessInitEngine /\ WsInit /\ ScrInit /\ BcInit

SpecEngineClose == InitEngineClose /\ [][NextEngineClose]_vars

\* sessions that are written to, resized and reaped
NextReap ==
    \/ CreateSessionCheck(FALSE)
    \/ \E sid \in Ids : CreateSessionFinish(sid)
    \/ \E id \in Ids : SendInput(id)
    \/ \E id \in Ids, size \in Sizes : Resize(id, size)
    \/ ReaperPass
    \/ Tick

SpecReap == Init /\ [][NextReap]_vars

\* a session as create_session(use_pexpect=True) leaves it
InitShared ==
    RegInit /\ RelayInit /\ ExpIdle /\ SessInitEngine /\ WsInit /\ ScrInit /\ BcInit

SpecShared == InitShared /\ [][NextShared]_vars

\* one Session object, with or without an engine
InitSession == RegInit /\ RelayInit /\ ExpIdle /\ SessInitAny /\ WsInit /\ ScrInit /\ BcInit

SpecSession == InitSession /\ [][SessNext]_vars

\* one Session object with its relay loop delivering the backend's output
NextActivity ==
    \/ SessNext
    \/ RelayTask
    \/ AddOutputCallback(1)
    \/ BackendEmit

SpecActivity == InitSession /\ [][NextActivity]_vars

\* the channel of one session, written, read and closed by its owners
NextChannel ==
    \/ \E v \in BOOLEAN, f \in BOOLEAN : SessionCloseOp(v, f)
    \/ \E data \in Inputs : SessionSendInputOp(data)
    \/ \E got \in BOOLEAN : PtyReadOp(got)
    \/ BackendEmit

SpecChannel == InitSession /\ [][NextChannel]_vars

\* one session and its relay loop over a channel whose transport may fail
NextGlitch ==
    \/ RelayTask
    \/ RelayReadFails
    \/ \E data \in Inputs : SessionSendInputOp(data)
    \/ \E data \in Inputs : SessionSendInputFails(data)
    \/ \E size \in Sizes : SessionResizeFails(size)
    \/ AddOutputCallback(1)
    \/ BackendEmit

SpecGlitch == InitSession /\ [][NextGlitch]_vars

\* a registered session: the manager's close_session, the session's relay
\* loop with subscribers that may raise, and a channel whose transport may
\* raise
NextLookup ==
    \/ RelayTask
    \/ RelayReadFails
    \/ \E f \in BOOLEAN : SessionCloseOp(TRUE, f)
    \/ \E data \in Inputs : SessionSendInputOp(data)
    \/ \E data \in Inputs : SessionSendInputFails(data)
    \/ \E cb \in Callbacks : AddOutputCallback(cb)
    \/ BackendEmit

SpecLookup == InitSession /\ [][NextLookup]_vars

\* the connection registry used by one caller at a time
SpecBroadcast == Init /\ [][NextBroadcast]_vars

\* the connection registry used by concurrent tasks
SpecBroadcastLive == Init /\ [][NextBroadcastLive]_vars

\* one push-channel connection to the session's id or to an unknown id
InitPush == RegInit /\ RelayInit /\ ExpIdle /\ SessInitAny /\ WsInitAny /\ ScrInit /\ BcInit

SpecPush == InitPush /\ [][NextPush]_vars

\* the steps of the connection handler
HandlerTask ==
    \/ WsAccept
    \/ WsErrorSent
    \/ WsReceive
    \/ WsReceiveMalformed
    \/ WsPongSent
    \/ \E caught \in BOOLEAN : WsPongFails(caught)

\* the event loop runs every task that can run; the client and the backend
\* are free to do nothing
SpecPushFair == SpecPush /\ WF_vars(RelayTask) /\ WF_vars(HandlerTask)

----------------------------------------------------------------------------
(* Claims about the session registry, checked under Spec *)

\* C1: in every reachable state the number of sessions in the registry map
\* is at most max_sessions, also while create_session calls that passed the
\* capacity check are suspended in connect.
C1_CountWithinMax == Cardinality(sessions) <= max_sessions

\* C2: a create_session call made while the registry holds max_sessions or
\* more entries raises the capacity error and changes nothing: no entry is
\* added or removed, no Session is touched, no channel is opened, no relay
\* task is started, no id is consumed.
C2_CapacityErrorNoEffect ==
    [][\A u \in BOOLEAN :
        (CreateSessionCheck(u) /\ Cardinality(sessions) >= max_sessions)
        => /\ lastOp' = Op("create", None, "RuntimeError")
           /\ UNCHANGED <<sessions, sessObj, pty, relay, nextId>>]_vars

\* a create_session call has just failed on a full registry
C2_Witness ==
    /\ lastOp = Op("create", None, "RuntimeError")
    /\ Cardinality(sessions) >= max_sessions

\* C3: close_session(id) on a registered id calls the session's close()
\* once, removes the id and returns true; a call with an id closed before,
\* or with an id that is not registered, returns false and changes nothing.
C3_CloseIdempotent ==
    [][\A id \in IdArgs : CloseSession(id) =>
        IF id \in sessions /\ id \notin closedIds
        THEN /\ lastOp' = Op("close", id, "True")
             /\ sessions' = sessions \ {id}
             /\ sessObj'[id].closes = sessObj[id].closes + 1
             /\ ~sessObj'[id].active
             /\ \A j \in Ids \ {id} : sessObj'[j] = sessObj[j] /\ pty'[j] = pty[j]
        ELSE /\ lastOp' = Op("close", id, "False")
             /\ UNCHANGED <<sessions, sessObj, pty, relay, closedIds>>]_vars

\* the second close_session of an id has just returned false
C3_Witness ==
    /\ lastOp.op = "close" /\ lastOp.ret = "False"
    /\ lastOp.id \in closedIds
    /\ sessObj[lastOp.id].closes = 1

\* C4: once an id has been closed, get_session(id) finds nothing in every
\* later state and no create_session call returns that id.
C4_ClosedIdNeverReturns ==
    [][\A id \in closedIds :
        /\ GetSession(id)' = None
        /\ ~CreateSessionFinish(id)]_vars

\* after a close, a later create_session has returned another id, and
\* the closed id is not found
C4_Witness ==
    \E id \in closedIds :
        /\ GetSession(id) = None
        /\ lastOp.op = "create" /\ lastOp.ret = "Created"
        /\ lastOp.id > id /\ lastOp.id \in sessions
        /\ sessObj[lastOp.id].last_activity > sessObj[id].last_activity

\* C5: a reaper pass closes and removes exactly the registered sessions
\* whose last_activity is more than timeout_seconds old; every other
\* session, and so every session that received send_input within
\* timeout_seconds before the pass, stays registered, active and untouched.
C5_ReaperClosesExactlyTimedOut ==
    [][ReaperPass => \A id \in sessions :
        /\ (now - sessObj[id].last_activity > timeout_seconds)
              => /\ id \notin sessions'
                 /\ ~sessObj'[id].active
                 /\ sessObj'[id].closes = sessObj[id].closes + 1
        /\ (now - sessObj[id].last_activity <= timeout_seconds)
              => /\ id \in sessions'
                 /\ sessObj'[id] = sessObj[id]
        /\ (lastInput[id] >= 0 /\ now - lastInput[id] <= timeout_seconds)
              => /\ id \in sessions'
                 /\ sessObj'[id].active]_vars

\* a pass has just closed an idle session and kept one that had input
\* inside the window although it was created longer ago than the timeout
C5_Witness ==
    /\ lastOp.op = "reap"
    /\ lastOp.reaped # {}
    /\ \E id \in sessions :
          /\ lastInput[id] >= 0
          /\ now - lastInput[id] <= timeout_seconds
          /\ sessObj[id].active
          /\ \E r \in lastOp.reaped : r > id

\* C22: however close_session calls, reaper passes and cleanup() follow
\* one another, the registry calls each session's close() at most once and
\* removes each id at most once: only a step that finds the id in the map
\* closes or removes it, and it does both; a close_session call for an id
\* already removed returns false and touches nothing.
C22_ClosedAndRemovedOnce ==
    /\ [](\A id \in Ids : sessObj[id].closes <= 1)
    /\ [][\A id \in Ids :
            /\ (sessObj'[id].closes # sessObj[id].closes \/ id \in closedIds' \ closedIds)
                  => /\ id \in sessions /\ id \notin sessions'
                     /\ id \notin closedIds /\ id \in closedIds'
                     /\ sessObj'[id].closes = sessObj[id].closes + 1
            /\ (id \in closedIds /\ CloseSession(id))
                  => /\ lastOp' = Op("close", id, "False")
                     /\ UNCHANGED <<sessions, sessObj, pty, closedIds>>]_vars

\* a reaper pass has just closed session r and left alone an id that has
\* been idle at least as long: close_session or cleanup had removed it
\* (an earlier pass that reaped it would have reaped r with it)
C22_Witness ==
    /\ lastOp.op = "reap"
    /\ \E r \in lastOp.reaped : \E id \in closedIds \ lastOp.reaped :
          /\ sessObj[r].last_activity <= sessObj[id].last_activity
          /\ TimedOut(id)
          /\ sessObj[id].closes = 1 /\ sessObj[r].closes = 1

----------------------------------------------------------------------------
(* Claims about create_session, checked under SpecCreate *)

\* C13: a create_session call that succeeds returns an id that no earlier
\* call returned and that was never registered; afterwards the id is a key
\* of the map, the map has one entry more, the session is active, its
\* channel is connected after one connect call, it has an engine exactly
\* when use_pexpect was set, and one relay task has been created for it.
C13_CreateRegistersOneSession ==
    [][\A sid \in Ids : CreateSessionFinish(sid) =>
        /\ lastOp' = Op("create", sid, "Created")
        /\ sid \notin sessions /\ sid \notin closedIds
        /\ sessObj[sid] = NoSession
        /\ sid \in sessions'
        /\ Cardinality(sessions') = Cardinality(sessions) + 1
        /\ sessObj'[sid].active
        /\ pty'[sid] = "connected" /\ connects'[sid] = 1
        /\ sessObj'[sid].pexpect = usePexpect[sid]
        /\ relay[sid] = 0 /\ relay'[sid] = 1
        /\ \A j \in Ids \ {sid} : relay'[j] = relay[j]]_vars

\* a create_session without automation has returned after one with
\* automation did: two registered sessions, one with an engine
C13_Witness ==
    /\ lastOp.op = "create" /\ lastOp.ret = "Created"
    /\ lastOp.id \in sessions
    /\ ~sessObj[lastOp.id].pexpect /\ relay[lastOp.id] = 1
    /\ \E j \in sessions \ {lastOp.id} :
          sessObj[j].pexpect /\ relay[j] = 1 /\ pty[j] = "connected"

\* C14: when connect raises, create_session ends with that error, the map
\* and the Session objects are as before and no relay task is created;
\* the id drawn for the attempt is never registered.
C14_ConnectFailureNoEffect ==
    /\ [][\A sid \in Ids : CreateSessionConnectFails(sid) =>
            /\ lastOp' = Op("create", None, "ConnectError")
            /\ UNCHANGED <<sessions, sessObj, relay>>]_vars
    /\ [](\A sid \in Ids : pty[sid] = "failed" =>
            /\ sid \notin sessions
            /\ sessObj[sid] = NoSession
            /\ relay[sid] = 0)

\* a create_session has just failed at connect next to a registered
\* session
C14_Witness ==
    /\ lastOp = Op("create", None, "ConnectError")
    /\ sessions # {}
    /\ \E sid \in Ids : pty[sid] = "failed" /\ sid \notin sessions

----------------------------------------------------------------------------
(* Claims about list_sessions, checked under SpecList *)

\* C18: list_sessions returns one descriptor for each session registered
\* at the call, with that session's id, last_activity and active flag as
\* they are at the call, and nothing else; no later operation changes a
\* value it has returned.
C18_ListIsSnapshot ==
    /\ [][ListSessions =>
            /\ Cardinality(listed') = Cardinality(sessions)
            /\ \A id \in sessions : \E d \in listed' :
                  /\ d.session_id = id
                  /\ d.last_activity = [isoformat |-> sessObj[id].last_activity]
                  /\ d.active = sessObj[id].active
            /\ \A d \in listed' : d.session_id \in sessions
            /\ UNCHANGED <<sessions, sessObj>>]_vars
    /\ [][~ListSessions => listed' = listed]_vars

\* a list returned earlier still shows as active a session, created after
\* time 0, that has since been closed, and does not show the session
\* created since
C18_Witness ==
    /\ lastOp.op = "create" /\ lastOp.ret = "Created"
    /\ \A d \in listed : d.session_id # lastOp.id
    /\ \E d \in listed :
          /\ d.session_id \in closedIds
          /\ d.active
          /\ d.last_activity.isoformat > 0

----------------------------------------------------------------------------
(* Claims about the relay loop, checked under SpecRelay *)

\* s is a subsequence of t: s is t with some elements left out
RECURSIVE IsSubseq(_, _)
IsSubseq(s, t) ==
    IF s = << >> THEN TRUE
    ELSE IF t = << >> THEN FALSE
    ELSE IF Head(s) = Head(t) THEN IsSubseq(Tail(s), Tail(t))
    ELSE IsSubseq(s, Tail(t))

\* C6: when the relay loop reads a chunk while a subscriber that raises on
\* every call is registered, every subscriber in the list is still called
\* with that chunk, the subscriber list is left as it was (the raising
\* subscriber stays), and the loop of an active session goes on.
C6_FanOutIsolation ==
    [][(RelayReadData /\ Range(callbacks) \cap CbRaises # {}) =>
        /\ \A cb \in Range(callbacks) :
              /\ Len(invoked'[cb]) > Len(invoked[cb])
              /\ \A k \in (Len(invoked[cb]) + 1)..Len(invoked'[cb]) :
                    invoked'[cb][k] = Head(backend)
        /\ callbacks' = callbacks
        /\ rActive' = rActive
        /\ rActive => rPc' \in {"reading", "sleeping"}]_vars

\* the raising subscriber is first in the list, a second subscriber is
\* behind it, and both have been called with every chunk the loop read;
\* the loop is still running
C6_Witness ==
    /\ Len(callbacks) >= 2
    /\ callbacks[1] \in CbRaises
    /\ callbacks[2] \notin CbRaises
    /\ Len(readLog) >= 2
    /\ invoked[callbacks[1]] = readLog
    /\ invoked[callbacks[2]] = readLog
    /\ rActive /\ rPc \in {"reading", "sleeping"}

\* C7: the chunks each subscriber was called with are a subsequence, in
\* order, of the chunks the relay loop read: none twice, none out of order.
C7_DeliveredIsSubsequence ==
    \A cb \in Callbacks : IsSubseq(invoked[cb], readLog)

\* C19: a delivery pass calls exactly the subscribers that were in the
\* list when the pass started, also when a subscriber adds or removes a
\* subscriber during the pass, and no error leaves the pass.
C19_PassDeliversToSnapshot ==
    [][RelayReadData =>
        /\ {cb \in AllCallbacks : invoked'[cb] # invoked[cb]} = Range(callbacks)
        /\ rActive' = rActive]_vars

\* C20: the relay task never has a read in flight on a channel that has
\* been closed.
C20_NoReadOnClosedChannel == ~(rPc = "reading" /\ ~rConnected)

----------------------------------------------------------------------------
(* Claims about the automation engine, checked under SpecExpect *)

\* the positions (1-based) of the patterns that match buf
Hits(pats, buf) == {i \in 1..Len(pats) : Matches(pats[i], buf)}

\* an expect call has ended and nothing has touched the engine since
ExpectEnded == ePc = "idle" /\ eOutcome.kind # "none"

\* C8: expect returns an index exactly when some pattern matches the
\* buffer it searched, and the index is then the lowest list index of a
\* matching pattern, wherever in the buffer the matches lie.
C8_LowestIndexWins ==
    (ExpectEnded /\ (Hits(ePats, eSearched) # {} \/ eOutcome.kind = "index")) =>
        /\ eOutcome.kind = "index"
        /\ eOutcome.i + 1 \in Hits(ePats, eSearched)
        /\ \A j \in Hits(ePats, eSearched) : eOutcome.i + 1 <= j

\* buffer "ab", patterns ["b", "a"]: expect has returned 0
C8_Witness ==
    /\ ExpectEnded
    /\ eSearched = <<"a", "b">>
    /\ ePats = << <<"b">>, <<"a">> >>
    /\ eOutcome = [kind |-> "index", i |-> 0]

\* C9: an expect call that found no match ends with TimeoutError, not
\* before the timeout has elapsed, and leaves in the buffer what was there
\* at the call followed by every byte the call read.
C9_TimeoutKeepsBuffer ==
    (ExpectEnded /\ eOutcome.kind # "index") =>
        /\ eOutcome.kind = "TimeoutError"
        /\ eElapsed >= eTimeout
        /\ buffer = eAccum

\* the text of out before the first occurrence of p (all of it when p does
\* not occur), and that text with the occurrence
BeforeFirst(p, out) ==
    IF Matches(p, out) THEN SubSeq(out, 1, MatchEnd(p, out) - Len(p)) ELSE out
ThroughFirst(p, out) ==
    IF Matches(p, out) THEN SubSeq(out, 1, MatchEnd(p, out)) ELSE out

\* C10: send_command with expect_prompt returns the bytes the backend
\* emitted between the send of the command and the first match of the
\* prompt (read with or without the prompt itself).
C10_ReturnsOutputUpToPrompt ==
    (ePc = "idle" /\ eCaller = "send_command" /\ cmdRet.kind = "returned"
        /\ eOutcome.kind = "index") =>
        cmdRet.out \in {BeforeFirst(ePats[1], cmdEmitted),
                        ThroughFirst(ePats[1], cmdEmitted)}

\* C24: after an expect call that returned an index, the buffer is the
\* searched buffer without its part up to the end of the first occurrence
\* of the winning pattern; an expect call that ended otherwise has left
\* the buffer untrimmed, and the next expect call starts from the buffer
\* as it is.
C24_TrimToMatchEnd ==
    /\ [](ExpectEnded =>
            IF eOutcome.kind = "index"
            THEN LET p == ePats[eOutcome.i + 1]
                     k == Len(eSearched) - Len(buffer) IN
                 /\ k >= Len(p)
                 /\ SubSeq(eSearched, k - Len(p) + 1, k) = p
                 /\ \A e \in Len(p)..(k - 1) :
                        SubSeq(eSearched, e - Len(p) + 1, e) # p
                 /\ buffer = SubSeq(eSearched, k + 1, Len(eSearched))
            ELSE buffer = eAccum)
    /\ [][(ePc = "idle" /\ ePc' = "loop" /\ eCaller' = "expect")
            => buffer' = buffer]_vars

\* expect("a") has searched "bab" and returned 0: the buffer is "b"
C24_Witness ==
    /\ ExpectEnded
    /\ eOutcome = [kind |-> "index", i |-> 0]
    /\ ePats = << <<"a">> >>
    /\ eSearched = <<"b", "a", "b">>
    /\ buffer = <<"b">>

\* a send_command call has ended and nothing has touched the engine since
SendCommandEnded == ePc = "idle" /\ eCaller = "send_command"

\* what C25 says of a send_command call that has ended
SendCommandOutcome ==
    SendCommandEnded =>
        /\ cmdRet.kind \in {"returned", "TimeoutError"}
        /\ cmdRet.kind = "returned" =>
              /\ cmdRet.out = buffer
              /\ eOutcome.kind = "index" =>
                    LET p == ePats[1]
                        k == Len(eSearched) - Len(cmdRet.out) IN
                    /\ k >= Len(p)
                    /\ SubSeq(eSearched, k - Len(p) + 1, k) = p
                    /\ \A e \in Len(p)..(k - 1) :
                           SubSeq(eSearched, e - Len(p) + 1, e) # p
                    /\ cmdRet.out = SubSeq(eSearched, k + 1, Len(eSearched))

\* C25: a send_command call empties the buffer and sends the command
\* followed by a newline; with expect_prompt it then waits in expect for
\* the prompt, without it it returns at once; a call that does not time
\* out returns the buffer as it then is: what was read since the clear
\* without the first occurrence of the prompt and everything before it.
C25_SendCommandSequence ==
    /\ [][\A e \in BOOLEAN, p \in PatStrings : SendCommand(e, p) =>
            /\ buffer' = << >>
            /\ lastWrite' = Ls \o <<"\n">>
            /\ IF e THEN ePc' = "loop" /\ ePats' = <<p>> /\ cmdRet'.kind = "none"
                    ELSE ePc' = "idle" /\ cmdRet' = [kind |-> "returned",
                                                      out |-> << >>]]_vars
    /\ []SendCommandOutcome

\* With a channel whose read returns a str the property of C25 holds
SyncSendCommandSequence ==
    /\ [][\A e \in BOOLEAN, p \in PatStrings : SendCommand(e, p) =>
            buffer' = << >> /\ lastWrite' = Ls \o <<"\n">>]_vars
    /\ [](chanKind = "sync" => SendCommandOutcome)

\* what C26 says of a send_command call whose expect found no match
SendCommandTimesOut ==
    (SendCommandEnded /\ eOutcome.kind \notin {"none", "index"}) =>
        /\ eOutcome.kind = "TimeoutError"
        /\ cmdRet.kind = "TimeoutError"
        /\ eElapsed >= eTimeout

\* C26: a send_command call with expect_prompt whose prompt did not appear
\* ends, once the deadline has passed, with TimeoutError raised to its
\* caller; it returns no value.
C26_TimeoutReachesCaller == SendCommandTimesOut

\* With a channel whose read returns a str the property of C26 holds
SyncTimeoutReachesCaller == chanKind = "sync" => SendCommandTimesOut

\* With a channel whose read returns a str the property of C9 holds: it
\* fails only through the un-awaited PTYHandler.read.
SyncReadTimeoutKeepsBuffer == chanKind = "sync" => C9_TimeoutKeepsBuffer

----------------------------------------------------------------------------
(* Claims about the engine's close, checked under SpecEngineClose *)

\* C28: PexpectHandler.close leaves the buffer and the pattern list empty
\* and does nothing to the channel: the channel is connected afterwards
\* exactly if it was before, what the backend has emitted is still there
\* to be read, and the engine calls neither the channel's close nor the
\* socket's.
C28_EngineCloseKeepsChannel ==
    [][PexpectClose =>
        /\ buffer' = << >> /\ patterns' = << >>
        /\ rConnected' = rConnected
        /\ chan' = chan /\ rActive' = rActive
        /\ \A k \in 1..Len(sCalls') :
              sCalls'[k].call \notin {"pty.close", "socket.close"}]_vars

\* the engine's close has just emptied a buffer that held what a
\* timed-out expect had read; the channel is connected and holds a byte
\* the backend emitted since
C28_Witness ==
    /\ sCalls = <<Call("caller", "pexpect.close", << >>)>>
    /\ eOutcome.kind = "TimeoutError" /\ eAccum # << >>
    /\ buffer = << >>
    /\ rConnected /\ chan # << >>

----------------------------------------------------------------------------
(* Claims about execute_script, checked under SpecScript *)

\* what C27 says of a request, while it runs and once it has ended
ScriptInOrder ==
    /\ Len(scrResults) <= Len(scrCommands)
    /\ \A i \in 1..Len(scrResults) :
          /\ scrResults[i].command = scrCommands[i]
          /\ i < Len(scrResults) => scrResults[i].success
    /\ Len(scrSent) <= Len(scrCommands)
    /\ \A i \in 1..Len(scrSent) : scrSent[i] = scrCommands[i] \o <<"\n">>
    /\ scrPc = "running" =>
          /\ Len(scrSent) = Len(scrResults) + 1
          /\ \A i \in 1..Len(scrResults) : scrResults[i].success
    /\ scrPc = "done" =>
          /\ scrRet = "returned"
          /\ Len(scrSent) = Len(scrResults)
          /\ \/ Len(scrResults) = Len(scrCommands)
             \/ ~scrResults[Len(scrResults)].success

\* C27: execute_script returns a list in which result i is for command i
\* and every result before the last has success true; the commands are
\* sent one at a time in list order, each after the one before it has
\* returned, and none is sent after the first that timed out, whose
\* result, with success false, is the last.
C27_ScriptResultsInOrder == ScriptInOrder

\* With a channel whose read returns a str the property of C27 holds
SyncScriptResultsInOrder == chanKind = "sync" => ScriptInOrder

\* a request of two commands has returned after its second command timed
\* out: two results, the first with success true, the second with false
SyncScriptWitness ==
    /\ chanKind = "sync" /\ scrPc = "done" /\ scrRet = "returned"
    /\ Len(scrCommands) = 2 /\ Len(scrResults) = 2
    /\ scrResults[1].success /\ ~scrResults[2].success

----------------------------------------------------------------------------
(* Claims about a Session object, checked under SpecSession *)

\* the positions in calls of the calls of what made by by
Pos(calls, by, what) ==
    {k \in 1..Len(calls) : calls[k].by = by /\ calls[k].call = what}

\* C11: send_input(data) sets last_activity to the current time and hands
\* the data to one sink: with an engine the session calls the engine's
\* send(data) once and does not itself call the channel's write; without
\* one it calls the channel's write once, with the encoded bytes of data.
C11_SendInputOneSink ==
    [][\A data \in Inputs : SessionSendInputOp(data) =>
        /\ sLastActivity' = now
        /\ IF sEngine
           THEN /\ Cardinality(Pos(sCalls', "session", "pexpect.send")) = 1
                /\ \A k \in Pos(sCalls', "session", "pexpect.send") :
                      sCalls'[k].arg = data
                /\ Pos(sCalls', "session", "pty.write") = {}
           ELSE /\ Cardinality(Pos(sCalls', "session", "pty.write")) = 1
                /\ \A k \in Pos(sCalls', "session", "pty.write") :
                      /\ sCalls'[k].arg = Encode(data)
                      /\ Len(sCalls'[k].arg) >= Len(data)
                /\ Pos(sCalls', "session", "pexpect.send") = {}
                /\ Pos(sCalls', "engine", "pty.write") = {}]_vars

\* a session without an engine has written the two octets of "e-acute" to
\* its channel, at a time after its creation
C11_Witness ==
    /\ ~sEngine
    /\ sCalls = <<Call("session", "pty.write", <<195, 169>>),
                  Call("pty", "socket.send", <<195, 169>>)>>
    /\ sLastActivity = now /\ now > 0

\* C12: close() sets active to false, then closes the engine when there is
\* one, then closes the channel; a call on a closed session leaves it
\* closed, changes nothing else and raises nothing.
C12_CloseOrderIdempotent ==
    [][\A v \in BOOLEAN, f \in BOOLEAN : SessionCloseOp(v, f) =>
        /\ ~rActive' /\ ~rConnected' /\ sError' = "none"
        /\ Pos(sCalls', "session", "active=False") = {1}
        /\ Cardinality(Pos(sCalls', "session", "pty.close")) = 1
        /\ Cardinality(Pos(sCalls', "session", "pexpect.close")) =
              (IF sEngine THEN 1 ELSE 0)
        /\ \A i \in Pos(sCalls', "session", "pexpect.close"),
              j \in Pos(sCalls', "session", "pty.close") : 1 < i /\ i < j
        /\ (~rActive /\ ~rConnected) =>
              UNCHANGED <<rActive, rConnected, sEngine, sLastActivity,
                          callbacks, buffer>>]_vars

\* close() has been called twice on a session with an engine; the second
\* call made its three calls in order and the session is closed
C12_Witness ==
    /\ sCloses = 2 /\ sEngine
    /\ ~rActive /\ ~rConnected /\ sError = "none"
    /\ sCalls = CloseCalls(TRUE, FALSE)
    /\ sCalls[2].call = "pexpect.close" /\ sCalls[3].call = "pty.close"

----------------------------------------------------------------------------
(* Claims about a Session and its relay loop, checked under SpecActivity *)

\* C23: while the session is active no step lowers last_activity; a step
\* that changes last_activity is a send_input or a resize; a delivery
\* pass of the relay loop leaves it as it is.
C23_ActivityOnlyByInput ==
    [][/\ rActive => sLastActivity' >= sLastActivity
       /\ sLastActivity' # sLastActivity =>
              \/ \E data \in Inputs : SessionSendInputOp(data)
              \/ \E size \in Sizes : SessionResizeOp(size)
       /\ RelayReadData => sLastActivity' = sLastActivity]_vars

\* an active session had input at time 1; by time 2 the relay loop has
\* delivered a chunk to a subscriber and the session's last call was a
\* resize: last_activity is still 1
C23_Witness ==
    /\ rActive /\ sLastActivity = 1 /\ now = 2
    /\ readLog # << >>
    /\ \E cb \in Callbacks : invoked[cb] # << >>
    /\ sCalls = <<Call("session", "pty.resize", <<24, 80>>)>>

----------------------------------------------------------------------------
(* Claims about the backend channel, checked under SpecChannel *)

\* the calls of what among calls
Made(calls, what) == {k \in 1..Len(calls) : calls[k].call = what}

\* C30: close() of the channel raises nothing however often it is called
\* and whether or not the socket's close raises; once it has been called
\* the channel is disconnected and stays so whatever its owners do, a
\* read returns nothing, takes nothing from the backend and does not
\* reach the socket, and a write does not reach the socket.
C30_CloseIdempotentFinal ==
    /\ [](sCloses >= 1 => ~rConnected)
    /\ [][/\ (sCalls' # sCalls /\ Made(sCalls', "pty.close") # {})
               => sError' = "none" /\ ~rConnected'
          /\ ~rConnected => ~rConnected'
          /\ (~rConnected /\ \E got \in BOOLEAN : PtyReadOp(got))
               => /\ chRet' = [kind |-> "returned", data |-> << >>]
                  /\ backend' = backend
                  /\ Made(sCalls', "socket.recv") = {}
          /\ (~rConnected /\ \E data \in Inputs : SessionSendInputOp(data))
               => /\ Made(sCalls', "socket.send") = {}
                  /\ sError' = "none"]_vars

\* the channel has been closed twice; a read made since has returned
\* nothing although the backend had emitted a chunk, which is still
\* pending, and the read did not reach the socket
C30_Witness ==
    /\ sCloses = 2 /\ ~rConnected
    /\ backend # << >>
    /\ chRet = [kind |-> "returned", data |-> << >>]
    /\ sCalls = <<Call("caller", "pty.read", << >>)>>

----------------------------------------------------------------------------
(* Claims about transport failures, checked under SpecGlitch *)

\* a transport call of the channel raises inside read, write or resize
TransportFails ==
    \/ RelayReadFails
    \/ \E data \in Inputs : SessionSendInputFails(data)
    \/ \E size \in Sizes : SessionResizeFails(size)

\* C29: when the transport of the connected channel raises during a read,
\* a write or a resize, nothing is raised to the caller; the read gives
\* nothing to deliver, the write and the resize change nothing; the
\* session stays registered and active, its channel connected and its
\* relay task in its loop.
C29_TransportFailureAbsorbed ==
    [][TransportFails =>
        /\ sError' = "none"
        /\ sRegistered' = sRegistered /\ rActive' = rActive
        /\ rConnected' = rConnected
        /\ readLog' = readLog /\ invoked' = invoked /\ backend' = backend
        /\ rPc' # "done"
        /\ (rPc' # rPc => rPc' = "sleeping")]_vars

\* a read of the relay task has just failed, after the loop had delivered
\* a chunk: the session is registered and active and the task sleeps
\* before its next read
C29_Witness ==
    /\ sCalls = <<Call("relay", "pty.read", << >>)>> \o Logged
    /\ readLog # << >> /\ invoked[1] # << >>
    /\ sRegistered /\ rActive /\ rConnected
    /\ rPc = "sleeping" /\ sError = "none"

----------------------------------------------------------------------------
(* Claims about a push-channel connection, checked under SpecPush *)

\* the output frames sent to the client so far
OutputFrames == SelectSeq(wsOut, LAMBDA f : f.type = "output")

\* C15: every chunk the relay loop reads while the connection's
\* output_callback is subscribed, and so calls output_callback with,
\* results in an output frame sent to the client for as long as the
\* connection lasts.
C15_EveryChunkSent ==
    \A k \in 1..MaxChunks :
        (Len(invoked[OutputCallback]) >= k)
            ~> (Len(OutputFrames) >= k \/ wsPc \in {"closed", "failed"})

C17_DispatchByType ==
    /\ [][(WsReceive /\ Head(wsIn) # Disconnect) =>
            LET f == Head(wsIn) IN
            /\ wsIn' = Tail(wsIn)
            /\ Len(wsLog') = Len(wsLog) + 1 /\ wsLog'[Len(wsLog')].type = f.type
            /\ wsOut' = wsOut
            /\ (f.type = "input") =>
                  /\ sCalls' = SendInputCalls(sEngine, rConnected, f.data)
                  /\ sLastActivity' = now
                  /\ wsPc' = "receiving"
            /\ (f.type = "resize") =>
                  /\ sCalls' = <<Call("session", "pty.resize", f.data)>>
                  /\ sLastActivity' = sLastActivity
                  /\ wsPc' = "receiving"
            /\ (f.type = "ping") =>
                  /\ UNCHANGED sessVars
                  /\ wsPc' = "sending_pong"
            /\ (f.type \notin {"input", "resize", "ping"}) =>
                  /\ UNCHANGED sessVars
                  /\ wsPc' = "receiving"]_vars
    /\ [][WsPongSent => wsOut' = Append(wsOut, PongFrame)]_vars

\* the client sent an input frame and then a ping: send_input was called,
\* then one pong was sent, and the handler waits for the next frame
C17_Witness ==
    /\ Len(wsLog) = 2
    /\ wsLog[1].type = "input" /\ wsLog[2].type = "ping"
    /\ wsOut = <<PongFrame>>
    /\ sCalls # << >> /\ sCalls[1].arg = <<233>>
    /\ wsPc = "receiving"

----------------------------------------------------------------------------
(* Claims about the connection registry *)

\* C31: no session id of the connection map is mapped to an empty set;
\* a disconnect of the last connection of a session id removes the id's
\* entry, a disconnect of any other registered connection removes that
\* connection only, and a disconnect of a connection or a session id that
\* is not registered changes nothing.
C31_NoEmptyEntry ==
    /\ [](\A sid \in DOMAIN active_connections :
             active_connections[sid] # {})
    /\ [][\A ws \in Conns, sid \in Sids :
            BcDisconnect(ws, sid) =>
               LET ac == active_connections
                   registered == sid \in DOMAIN ac /\ ws \in ac[sid] IN
                /\ ~registered => active_connections' = ac
                /\ registered /\ ac[sid] = {ws} =>
                      /\ DOMAIN active_connections' = DOMAIN ac \ {sid}
                      /\ \A k \in DOMAIN ac \ {sid} :
                            active_connections'[k] = ac[k]
                /\ registered /\ ac[sid] # {ws} =>
                      active_connections' = [ac EXCEPT ![sid] = @ \ {ws}]]_vars

\* a pass whose sends all failed has disconnected every connection of the
\* session id, the last of them too, and the id has no entry any more while
\* the other id has kept its own
C31_Witness ==
    /\ dPc = "done"
    /\ Cardinality(dStart) = 2
    /\ Len(disconnected) = 2
    /\ dSid = SessionId
    /\ DOMAIN active_connections = {"other_id"}

\* the step that ends a send_to_session pass
PassEnds == dPc = "sending" /\ dPc' # "sending"

C33_MutationAtomicForDeliver ==
    [][PassEnds =>
          /\ dRet' = "returned"
          /\ dStable \subseteq Range(dSent')]_vars

----------------------------------------------------------------------------
(* Claims about a registered session *)

\* C34: the session get_session returns is active: the session is in the
\* map only while its active flag is set, and the flag is cleared only in
\* the step that takes the session out of the map.
C34_RegisteredIsActive ==
    /\ [](sRegistered => rActive)
    /\ [][rActive /\ ~rActive' => sRegistered /\ ~sRegistered']_vars

\* the relay loop's read has just failed in the transport, after a chunk was
\* delivered to a subscriber that raises, and the session is still in the
\* map and active
C34_Witness ==
    /\ sRegistered /\ rActive
    /\ sCalls = <<Call("relay", "pty.read", << >>)>> \o Logged
    /\ \E cb \in CbRaises : cb \in Range(callbacks) /\ invoked[cb] # << >>

\* C35: once the session has been closed its relay loop calls no subscriber
\* any more, not even with a chunk whose read was in flight at the close.
C35_NoDeliveryAfterClose == [][~rActive => invoked' = invoked]_vars

----------------------------------------------------------------------------
(* Claims about the end of a push-channel connection *)

\* C36: when the handler of a connection to a live session has ended, for
\* whatever reason, its output_callback is not in the session's subscriber
\* list and the connection is not registered in active_connections.
C36_HandlerEndCleansUp ==
    (wsTarget = "live" /\ wsPc \in {"closed", "failed"}) =>
        /\ OutputCallback \notin Range(callbacks)
        /\ \A sid \in DOMAIN active_connections :
              Conn \notin active_connections[sid]

----------------------------------------------------------------------------
(* Claims about the engine and the relay loop on one channel *)

\* C37: while an expect call waits, the relay loop takes no bytes from the
\* backend channel, and a call that send_command made ends with an index
\* when the backend emitted an occurrence of the prompt while it waited.
C37_ExpectGetsItsBytes ==
    [][/\ ePc = "loop" => readLog' = readLog
       /\ (/\ ePc = "loop" /\ ePc' = "idle"
           /\ eCaller = "send_command"
           /\ Matches(ePats[1], cmdEmitted)) => eOutcome'.kind = "index"]_vars

----------------------------------------------------------------------------
(* Claims about the outcomes of expect *)

\* C38: an expect call ends in one of two ways only, with the index of one
\* of its patterns or with TimeoutError, whichever channel the engine
\* wraps.
C38_ExpectIndexOrTimeout ==
    \/ eOutcome.kind = "none"
    \/ eOutcome.kind = "index" /\ eOutcome.i \in 0..(Len(ePats) - 1)
    \/ eOutcome.kind = "TimeoutError"

\* C39: an expect call made when the buffer already holds a match of one
\* of the patterns ends with an index, whatever its timeout.
C39_TestsBufferBeforeTimeout ==
    [][(/\ ePc = "loop" /\ ePc' = "idle"
        /\ eCaller = "expect"
        /\ eElapsed = 0
        /\ Winner(ePats, buffer) # 0) => eOutcome'.kind = "index"]_vars

----------------------------------------------------------------------------
(* Claims about resize and the idle reaper *)

\* a reaper pass
ReaperStep == lastOp'.op = "reap" /\ lastOp' # lastOp

\* C40: resize calls the channel's resize and leaves last_activity (and the
\* registry) as they were, and a reaper pass closes every session whose last
\* send_input is more than timeout_seconds ago, however recently it was
\* resized.
C40_ResizeIsNotActivity ==
    /\ [][\A id \in Ids, size \in Sizes :
            Resize(id, size) =>
               /\ sCalls' = <<Call("session", "pty.resize", size)>>
               /\ sessObj'[id].last_activity = sessObj[id].last_activity
               /\ sessions' = sessions]_vars
    /\ [][ReaperStep =>
            \A id \in sessions :
               (lastInput[id] >= 0 /\ now - lastInput[id] > timeout_seconds)
                  => id \notin sessions']_vars

\* the reaper has just closed a session that was resized less than the
\* timeout ago
C40_Witness ==
    /\ lastOp.op = "reap"
    /\ lastResize.id \in lastOp.reaped
    /\ now - lastResize.at <= timeout_seconds
    /\ lastResize.id \in closedIds

====
